---- MODULE Spec2Model ----
(***************************************************************************)
(* A model of the card-game server: the card model and deck (card.py),     *)
(* the poker hand evaluator (poker_hand.py), the Monte-Carlo estimator      *)
(* (probability.py), the player (player.py), the Last Card engine           *)
(* (game_engine.py) and the Socket.IO event handlers (app.py).              *)
(***************************************************************************)
EXTENDS Integers, Sequences, FiniteSets, TLC

VARIABLES
    \* the hand evaluator under test
    players_cards,  \* the argument: a list of <<player_name, cards>>
    eval_out,       \* the last call of the evaluator and what it returned
    \* one call of calculate_win_probability
    hole_cards, community_cards, num_opponents, simulations,  \* the arguments
    wins, ties, losses,  \* the counters
    sim,            \* trials done
    prob_out,       \* what the call returned
    \* the Texas Hold'em betting engine (PokerGame)
    poker_players,  \* the seats: chips, current_bet, total_bet_this_round, flags
    pot, current_bet, min_raise,
    dealer_index, last_raiser_index, acting_index,
    poker_phase,
    hand_start_chips,  \* each seat's chips when the hand started
    hands_played,
    poker_result,   \* what the last call returned
    phase_path,     \* the phases the last call went through, in order
    last_winners,   \* the winners of the last hand paid out and what each was paid
    \* the Last Card engine (LastCardGame)
    game,           \* the LastCardGame object: its fields
    game_out,       \* the last call of the engine and what it returned
    game_steps,     \* calls that changed the game
    \* a Deck
    deck_cards,     \* Deck.cards
    dealt_cards,    \* the cards dealt since the last reset, in order
    deck_out,       \* the last call of the deck and what it returned
    deck_calls,     \* calls made
    \* a Player
    player,         \* the Player object: chips, current_bet, total_bet_this_round, flags
    player_out,     \* the last call of the player and what it returned
    player_calls,   \* calls made
    \* one room of the Socket.IO server (app.py); its game is the betting engine above
    games,            \* the rooms that have a game
    seated,           \* name and is_human of game.players, seat by seat
    socket_to_player, \* socket_to_player[room_id]: socket id -> player name
    player_to_socket, \* player_to_socket[room_id]: player name -> socket id
    room_hosts,       \* room_hosts.get(room_id), "None" when there is none
    ai_turns,         \* the calls of check_and_execute_ai_turn that are asleep
    app_out,          \* the last event handled and what became of it
    app_steps         \* events that were not turned away

evalVars == <<players_cards, eval_out>>

probVars == <<hole_cards, community_cards, num_opponents, simulations,
              wins, ties, losses, sim, prob_out>>

pokerVars == <<poker_players, pot, current_bet, min_raise, dealer_index, last_raiser_index,
               acting_index, poker_phase, hand_start_chips, hands_played, poker_result,
               phase_path, last_winners>>

gameVars == <<game, game_out, game_steps>>

deckVars == <<deck_cards, dealt_cards, deck_out, deck_calls>>

playerVars == <<player, player_out, player_calls>>

appVars == <<games, seated, socket_to_player, player_to_socket, room_hosts, ai_turns,
             app_out, app_steps>>

vars == <<evalVars, probVars, pokerVars, gameVars, deckVars, playerVars, appVars>>

\* What each component leaves alone.
notEvalVars == <<probVars, pokerVars, gameVars, deckVars, playerVars, appVars>>

notProbVars == <<evalVars, pokerVars, gameVars, deckVars, playerVars, appVars>>

notPokerVars == <<evalVars, probVars, gameVars, deckVars, playerVars, appVars>>

notGameVars == <<evalVars, probVars, pokerVars, deckVars, playerVars, appVars>>

notDeckVars == <<evalVars, probVars, pokerVars, gameVars, playerVars, appVars>>

notPlayerVars == <<evalVars, probVars, pokerVars, gameVars, deckVars, appVars>>

\* A component that is not in use.
NoCall == [op |-> "none", arg |-> <<>>, result |-> <<>>]

EvalIdle == players_cards = <<>> /\ eval_out = NoCall

NoReport == [kind |-> "none", win |-> 0, tie |-> 0, lose |-> 0]

ProbIdle ==
    /\ hole_cards = <<>> /\ community_cards = <<>> /\ num_opponents = 0 /\ simulations = 0
    /\ wins = 0 /\ ties = 0 /\ losses = 0 /\ sim = 0
    /\ prob_out = NoReport

PokerIdle ==
    /\ poker_players = <<>> /\ pot = 0 /\ current_bet = 0 /\ min_raise = 0
    /\ dealer_index = 0 /\ last_raiser_index = 0 /\ acting_index = 0
    /\ poker_phase = "WAITING"
    /\ hand_start_chips = <<>> /\ hands_played = 0
    /\ poker_result = "none"
    /\ phase_path = <<>> /\ last_winners = <<>>

NoGameCall == [op |-> "none", name |-> "None", ok |-> FALSE, message |-> "", changed |-> FALSE]

GameIdle == game = <<>> /\ game_out = NoGameCall /\ game_steps = 0

NoDeckCall == [op |-> "none", num |-> 0, raised |-> FALSE, result |-> <<>>]

DeckIdle == deck_cards = <<>> /\ dealt_cards = <<>> /\ deck_out = NoDeckCall /\ deck_calls = 0

NoPlayerCall == [op |-> "none", amount |-> 0, result |-> 0]

PlayerIdle == player = <<>> /\ player_out = NoPlayerCall /\ player_calls = 0

\* A Python dict with no keys
EmptyMap == [k \in {} |-> "None"]

NoAppEvent == [handler |-> "none", sid |-> "None", name |-> "None", applied |-> FALSE]

AppIdle ==
    /\ games = {} /\ seated = <<>>
    /\ socket_to_player = EmptyMap /\ player_to_socket = EmptyMap
    /\ room_hosts = "None"
    /\ ai_turns = <<>>
    /\ app_out = NoAppEvent /\ app_steps = 0

(***************************************************************************)
(* card.py                                                                 *)
(***************************************************************************)
SUITS == <<"hearts", "diamonds", "clubs", "spades">>

RANKS == <<"2", "3", "4", "5", "6", "7", "8", "9", "10", "J", "Q", "K", "A">>

\* RANK_VALUES = {rank: i for i, rank in enumerate(RANKS, 2)}
RANK_VALUES == [r \in {RANKS[i] : i \in 1..Len(RANKS)} |->
                  (CHOOSE i \in 1..Len(RANKS) : RANKS[i] = r) + 1]

Card(rank, suit) == [rank |-> rank, suit |-> suit]

\* Card.value
value(card) == RANK_VALUES[card.rank]

(***************************************************************************)
(* Python list helpers used by the evaluator.                              *)
(***************************************************************************)
Range(s) == {s[i] : i \in 1..Len(s)}

Min(S) == CHOOSE x \in S : \A y \in S : x <= y

Max(S) == CHOOSE x \in S : \A y \in S : x >= y

\* Mutant of SortedDesc: the values are left in the order the cards were passed.
SortedDescOmitted(s) == s

RECURSIVE InsertDesc(_, _)
InsertDesc(x, s) ==
    IF s = <<>> THEN <<x>>
    ELSE IF x >= Head(s) THEN <<x>> \o s
    ELSE <<Head(s)>> \o InsertDesc(x, Tail(s))

\* sorted(values, reverse=True)
RECURSIVE SortedDesc(_)
SortedDesc(s) == IF s = <<>> THEN <<>> ELSE InsertDesc(Head(s), SortedDesc(Tail(s)))

Reverse(s) == [i \in 1..Len(s) |-> s[Len(s) + 1 - i]]

\* sorted(values)
Sorted(s) == Reverse(SortedDesc(s))

\* The keys of Counter(values), in insertion (first occurrence) order.
RECURSIVE CounterKeys(_)
CounterKeys(s) ==
    IF s = <<>> THEN <<>>
    ELSE LET rest == CounterKeys(SubSeq(s, 1, Len(s) - 1))
             x == s[Len(s)]
         IN IF x \in Range(rest) THEN rest ELSE Append(rest, x)

\* Counter(values)[v]
Count(s, v) == Cardinality({i \in 1..Len(s) : s[i] = v})

\* Counter(values) as <<keys in insertion order, count of each key>>
Counter(s) == <<CounterKeys(s), [v \in Range(s) |-> Count(s, v)]>>

\* [v for v, c in value_counts.items() if c == n]
KeysWithCount(value_counts, n) ==
    SelectSeq(value_counts[1], LAMBDA v : value_counts[2][v] = n)

\* [v for v, c in value_counts.items() if c != n]
KeysWithoutCount(value_counts, n) ==
    SelectSeq(value_counts[1], LAMBDA v : value_counts[2][v] # n)

\* Python's comparison of two lists of integers: -1, 0 or 1.
RECURSIVE ListCmp(_, _)
ListCmp(a, b) ==
    IF a = <<>> /\ b = <<>> THEN 0
    ELSE IF a = <<>> THEN -1
    ELSE IF b = <<>> THEN 1
    ELSE IF Head(a) < Head(b) THEN -1
    ELSE IF Head(a) > Head(b) THEN 1
    ELSE ListCmp(Tail(a), Tail(b))

(***************************************************************************)
(* poker_hand.py                                                           *)
(***************************************************************************)
HIGH_CARD == 1
ONE_PAIR == 2
TWO_PAIR == 3
THREE_OF_A_KIND == 4
STRAIGHT == 5
FLUSH == 6
FULL_HOUSE == 7
FOUR_OF_A_KIND == 8
STRAIGHT_FLUSH == 9
ROYAL_FLUSH == 10

NAMES == <<"High Card", "One Pair", "Two Pair", "Three of a Kind", "Straight",
           "Flush", "Full House", "Four of a Kind", "Straight Flush", "Royal Flush">>

WheelValues == {14, 2, 3, 4, 5}

\* PokerHandEvaluator._is_straight
_is_straight(values) ==
    LET sorted_vals == Sorted(values)
        lo == sorted_vals[1]
    IN \/ sorted_vals = [i \in 1..5 |-> lo + i - 1]
       \/ Range(values) = WheelValues

\* raise ValueError(...)
ValueError == <<"ValueError">>

\* Mutant of wheel_values: the Ace of the wheel stays high.
wheel_values_ace_high(is_wheel, sorted_values) == sorted_values

\* evaluate_hand: "if is_wheel: values = [5, 4, 3, 2, 1]" (the Ace is low in the wheel)
wheel_values(is_wheel, sorted_values) ==
    IF is_wheel THEN <<5, 4, 3, 2, 1>> ELSE sorted_values

\* Mutant of is_royal: the test comes after the Straight Flush test and never applies.
is_royal_shadowed(is_flush, is_straight, values) == FALSE

\* evaluate_hand: the Royal Flush test
is_royal(is_flush, is_straight, values) ==
    is_flush /\ is_straight /\ Max(Range(values)) = 14 /\ Min(Range(values)) = 10

\* PokerHandEvaluator.evaluate_hand: <<hand_rank, tiebreakers, name>>, or ValueError
\* unless there are exactly 5 cards
evaluate_hand(cards) ==
    LET sorted_values == SortedDesc([i \in 1..Len(cards) |-> value(cards[i])])
        suits == [i \in 1..Len(cards) |-> cards[i].suit]
        value_counts == Counter(sorted_values)
        counts == Range([i \in 1..Len(value_counts[1]) |-> value_counts[2][value_counts[1][i]]])
        is_flush == Cardinality(Range(suits)) = 1
        is_straight == _is_straight(sorted_values)
        is_wheel == Range(sorted_values) = WheelValues
        values == wheel_values(is_wheel, sorted_values)
        Result(r, tb) == <<r, tb, NAMES[r]>>
    IN IF Len(cards) # 5
         THEN ValueError
       ELSE IF is_royal(is_flush, is_straight, values)
         THEN Result(ROYAL_FLUSH, values)
       ELSE IF is_flush /\ is_straight
         THEN Result(STRAIGHT_FLUSH, values)
       ELSE IF 4 \in counts
         THEN Result(FOUR_OF_A_KIND,
                     <<KeysWithCount(value_counts, 4)[1], KeysWithoutCount(value_counts, 4)[1]>>)
       ELSE IF 3 \in counts /\ 2 \in counts
         THEN Result(FULL_HOUSE,
                     <<KeysWithCount(value_counts, 3)[1], KeysWithCount(value_counts, 2)[1]>>)
       ELSE IF is_flush
         THEN Result(FLUSH, values)
       ELSE IF is_straight
         THEN Result(STRAIGHT, values)
       ELSE IF 3 \in counts
         THEN Result(THREE_OF_A_KIND,
                     <<KeysWithCount(value_counts, 3)[1]>>
                       \o SortedDesc(KeysWithoutCount(value_counts, 3)))
       ELSE IF Len(KeysWithCount(value_counts, 2)) = 2
         THEN Result(TWO_PAIR,
                     SortedDesc(KeysWithCount(value_counts, 2))
                       \o <<KeysWithCount(value_counts, 1)[1]>>)
       ELSE IF 2 \in counts
         THEN Result(ONE_PAIR,
                     <<KeysWithCount(value_counts, 2)[1]>>
                       \o SortedDesc(KeysWithoutCount(value_counts, 2)))
       ELSE Result(HIGH_CARD, values)

\* PokerHandEvaluator._compare_hands on (rank, tiebreakers) pairs; zip stops at the
\* shorter list.
RECURSIVE ZipDiff(_, _)
ZipDiff(a, b) ==
    IF a = <<>> \/ b = <<>> THEN 0
    ELSE IF Head(a) # Head(b) THEN Head(a) - Head(b)
    ELSE ZipDiff(Tail(a), Tail(b))

\* Mutant of _compare_hands: only the categories are compared.
_compare_hands_category_only(hand1, hand2) == hand1[1] - hand2[1]

_compare_hands(hand1, hand2) ==
    IF hand1[1] # hand2[1] THEN hand1[1] - hand2[1]
    ELSE ZipDiff(hand1[2], hand2[2])

\* itertools.combinations(range(lo, n + 1), r): index tuples in lexicographic order.
RECURSIVE CombinationsFrom(_, _, _)
CombinationsFrom(lo, n, r) ==
    IF r = 0 THEN << <<>> >>
    ELSE IF lo > n THEN <<>>
    ELSE LET with == CombinationsFrom(lo + 1, n, r - 1)
         IN [i \in 1..Len(with) |-> <<lo>> \o with[i]] \o CombinationsFrom(lo + 1, n, r)

\* The 5-card index combinations of hands of up to 8 cards, tabulated once.
CombinationTable == [n \in 0..8 |-> CombinationsFrom(1, n, 5)]

combinations(n, r) ==
    IF r = 5 /\ n \in DOMAIN CombinationTable THEN CombinationTable[n]
    ELSE CombinationsFrom(1, n, r)

\* The loop of best_hand over combos[k..]; best is <<hand, rank, tiebreakers, name>>,
\* hand = <<>> standing for None.
RECURSIVE BestHandLoop(_, _, _, _)
BestHandLoop(cards, combos, k, best) ==
    IF k > Len(combos) THEN best
    ELSE LET hand == [i \in 1..5 |-> cards[combos[k][i]]]
             ev == evaluate_hand(hand)
             better == \/ best[1] = <<>>
                       \/ _compare_hands(<<ev[1], ev[2]>>, <<best[2], best[3]>>) > 0
         IN BestHandLoop(cards, combos, k + 1,
                         IF better THEN <<hand, ev[1], ev[2], ev[3]>> ELSE best)

\* Mutant of best_hand: the number of cards is not checked.
best_hand_unchecked(cards) ==
    BestHandLoop(cards, combinations(Len(cards), 5), 1, <<<<>>, 0, <<>>, "">>)

\* PokerHandEvaluator.best_hand, ValueError for fewer than 5 cards, else
\* <<best_5_cards, hand_rank, tiebreakers, name>>
best_hand(cards) ==
    IF Len(cards) < 5 THEN ValueError
    ELSE BestHandLoop(cards, combinations(Len(cards), 5), 1, <<<<>>, 0, <<>>, "">>)

\* The sort key of compare_players, (rank, tiebreakers), compared as Python compares
\* tuples: -1, 0 or 1.
KeyCmp(x, y) ==
    IF x[2] < y[2] THEN -1
    ELSE IF x[2] > y[2] THEN 1
    ELSE ListCmp(x[3], y[3])

\* One step of the stable descending sort: x goes after every element whose key is
\* not smaller than its own.
RECURSIVE InsertByKeyDesc(_, _)
InsertByKeyDesc(x, s) ==
    IF s = <<>> THEN <<x>>
    ELSE IF KeyCmp(x, Head(s)) > 0 THEN <<x>> \o s
    ELSE <<Head(s)>> \o InsertByKeyDesc(x, Tail(s))

\* evaluated.sort(key=lambda x: (x[1], x[2]), reverse=True)
RECURSIVE SortByKeyDesc(_)
SortByKeyDesc(s) ==
    IF s = <<>> THEN <<>>
    ELSE InsertByKeyDesc(s[Len(s)], SortByKeyDesc(SubSeq(s, 1, Len(s) - 1)))

\* Mutant of RankLoop: dense ranking, the position after a tie is not skipped.
RECURSIVE RankLoopDense(_, _, _, _)
RankLoopDense(evaluated, i, current_rank, results) ==
    IF i > Len(evaluated) THEN results
    ELSE LET changed == i > 1 /\ <<evaluated[i][2], evaluated[i][3]>>
                                   # <<evaluated[i - 1][2], evaluated[i - 1][3]>>
             rank == IF changed THEN current_rank + 1 ELSE current_rank
         IN RankLoopDense(evaluated, i + 1, rank,
                          Append(results, <<evaluated[i][1], rank, evaluated[i][4]>>))

\* The ranking loop of compare_players over evaluated[i..]
RECURSIVE RankLoop(_, _, _, _)
RankLoop(evaluated, i, current_rank, results) ==
    IF i > Len(evaluated) THEN results
    ELSE LET changed == i > 1 /\ <<evaluated[i][2], evaluated[i][3]>>
                                   # <<evaluated[i - 1][2], evaluated[i - 1][3]>>
             rank == IF changed THEN i ELSE current_rank
         IN RankLoop(evaluated, i + 1, rank,
                     Append(results, <<evaluated[i][1], rank, evaluated[i][4]>>))

\* PokerHandEvaluator.compare_players: players_cards is a list of <<name, cards>>,
\* the result a list of <<name, rank_position, hand_name>>, winner first.
compare_players(pcs) ==
    LET evaluated == [i \in 1..Len(pcs) |->
                        LET b == best_hand(pcs[i][2])
                        IN <<pcs[i][1], b[2], b[3], b[4]>>]
    IN RankLoop(SortByKeyDesc(evaluated), 1, 1, <<>>)

(***************************************************************************)
(* probability.py: WinProbabilityCalculator.calculate_win_probability      *)
(***************************************************************************)
\* [Card(rank, suit) for suit in SUITS for rank in RANKS]
FullDeck ==
    [i \in 1..(Len(SUITS) * Len(RANKS)) |->
        Card(RANKS[((i - 1) % Len(RANKS)) + 1], SUITS[((i - 1) \div Len(RANKS)) + 1])]

\* The deck of remaining cards: every card not among the known ones, in deck order
remaining_cards(known) ==
    LET unused(c) == c \notin Range(known)
    IN SelectSeq(FullDeck, unused)

\* "if opp_rank > best_opponent_rank or (opp_rank == best_opponent_rank and
\*      opp_tiebreakers > best_opponent_tiebreakers)": the best opponent so far
better_opponent(best, opp) ==
    IF \/ opp[2] > best[1]
       \/ opp[2] = best[1] /\ ListCmp(opp[3], best[2]) > 0
    THEN <<opp[2], opp[3]>>
    ELSE best

\* The loop over opponent_hands[k..], keeping the best (rank, tiebreakers)
RECURSIVE BestOpponentLoop(_, _, _, _)
BestOpponentLoop(opponent_hands, sim_community, k, best) ==
    IF k > Len(opponent_hands) THEN best
    ELSE BestOpponentLoop(opponent_hands, sim_community, k + 1,
                          better_opponent(best, best_hand(opponent_hands[k] \o sim_community)))

\* Mutant of classify: equal hands are counted as nothing.
classify_without_tie(our_rank, our_tiebreakers, best_opponent_rank, best_opponent_tiebreakers) ==
    IF our_rank > best_opponent_rank THEN <<1, 0, 0>>
    ELSE IF our_rank < best_opponent_rank THEN <<0, 0, 1>>
    ELSE IF ListCmp(our_tiebreakers, best_opponent_tiebreakers) > 0 THEN <<1, 0, 0>>
    ELSE IF ListCmp(our_tiebreakers, best_opponent_tiebreakers) < 0 THEN <<0, 0, 1>>
    ELSE <<0, 0, 0>>

\* Mutant of classify: the categories are compared the wrong way round.
classify_inverted(our_rank, our_tiebreakers, best_opponent_rank, best_opponent_tiebreakers) ==
    IF our_rank < best_opponent_rank THEN <<1, 0, 0>>
    ELSE IF our_rank > best_opponent_rank THEN <<0, 0, 1>>
    ELSE IF ListCmp(our_tiebreakers, best_opponent_tiebreakers) > 0 THEN <<1, 0, 0>>
    ELSE IF ListCmp(our_tiebreakers, best_opponent_tiebreakers) < 0 THEN <<0, 0, 1>>
    ELSE <<0, 1, 0>>

\* The "Compare" step of a trial: what is added to <<wins, ties, losses>>
classify(our_rank, our_tiebreakers, best_opponent_rank, best_opponent_tiebreakers) ==
    IF our_rank > best_opponent_rank THEN <<1, 0, 0>>
    ELSE IF our_rank < best_opponent_rank THEN <<0, 0, 1>>
    ELSE IF ListCmp(our_tiebreakers, best_opponent_tiebreakers) > 0 THEN <<1, 0, 0>>
    ELSE IF ListCmp(our_tiebreakers, best_opponent_tiebreakers) < 0 THEN <<0, 0, 1>>
    ELSE <<0, 1, 0>>

\* Our best hand against the best opponent's
compare_to_best(our, best_opponent) ==
    classify(our[2], our[3], best_opponent[1], best_opponent[2])

\* The hands of a trial, once its cards are dealt
play_out(hole, sim_community, opponent_hands) ==
    compare_to_best(best_hand(hole \o sim_community),
                    BestOpponentLoop(opponent_hands, sim_community, 1, <<0, <<>>>>))

\* One trial, given the head of the shuffled deck: the missing community cards, then
\* two cards for each opponent.
trial(hole, community, opponents, deck) ==
    LET cards_needed == 5 - Len(community)
        dealt == IF cards_needed > 0 THEN cards_needed ELSE 0
    IN play_out(hole, community \o SubSeq(deck, 1, dealt),
                [k \in 1..opponents |-> <<deck[dealt + 2 * k - 1], deck[dealt + 2 * k]>>])

\* round(x, 1) of the percentage (count / total) * 100, in tenths of a percent; a value
\* half way between two tenths goes to the even one.
round_percent(count, total) ==
    LET q == (1000 * count) \div total
        r == (1000 * count) % total
    IN IF 2 * r < total THEN q
       ELSE IF 2 * r > total THEN q + 1
       ELSE IF q % 2 = 0 THEN q ELSE q + 1

\* The cards of a trial that are read from the shuffled deck
CardsRead(community, opponents) ==
    (IF Len(community) < 5 THEN 5 - Len(community) ELSE 0) + 2 * opponents

(***************************************************************************)
(* The estimator applied to bounded inputs and shuffles.                   *)
(***************************************************************************)
\* Simulations asked for.
MaxSims == 3

\* Places at which a shuffled deck is cut.
MaxShuffles == 5

ShuffleStrides == {1, 5, 13}

\* The outcomes of random.shuffle(deck) that are tried: the first k cards are every
\* stride-th card of the deck from a cut.
Shuffles(deck, k) ==
    LET n == Len(deck)
        heads == { [i \in 1..k |-> deck[((j * (n \div MaxShuffles) + (i - 1) * s) % n) + 1]] :
                     j \in 0..(MaxShuffles - 1), s \in ShuffleStrides }
    IN {h \in heads : Cardinality(Range(h)) = k}

Hand(cs) == [i \in 1..Len(cs) |-> Card(cs[i][1], cs[i][2])]

ProbInputs ==
    { \* a royal flush made with both hole cards, on the river
      [hole |-> Hand(<< <<"A", "spades">>, <<"K", "spades">> >>),
       community |-> Hand(<< <<"Q", "spades">>, <<"J", "spades">>, <<"10", "spades">>,
                             <<"2", "hearts">>, <<"7", "diamonds">> >>),
       opponents |-> 1],
      \* a royal flush made with one hole card
      [hole |-> Hand(<< <<"A", "spades">>, <<"3", "diamonds">> >>),
       community |-> Hand(<< <<"K", "spades">>, <<"Q", "spades">>, <<"J", "spades">>,
                             <<"10", "spades">>, <<"2", "hearts">> >>),
       opponents |-> 1],
      \* a royal flush on the board
      [hole |-> Hand(<< <<"2", "hearts">>, <<"3", "diamonds">> >>),
       community |-> Hand(<< <<"A", "spades">>, <<"K", "spades">>, <<"Q", "spades">>,
                             <<"J", "spades">>, <<"10", "spades">> >>),
       opponents |-> 1],
      \* a straight on the river
      [hole |-> Hand(<< <<"10", "clubs">>, <<"2", "diamonds">> >>),
       community |-> Hand(<< <<"6", "hearts">>, <<"7", "diamonds">>, <<"8", "clubs">>,
                             <<"9", "spades">>, <<"K", "hearts">> >>),
       opponents |-> 1],
      \* a straight draw on the turn
      [hole |-> Hand(<< <<"10", "clubs">>, <<"2", "diamonds">> >>),
       community |-> Hand(<< <<"6", "hearts">>, <<"7", "diamonds">>, <<"8", "clubs">>,
                             <<"K", "hearts">> >>),
       opponents |-> 1],
      \* a pair against two opponents on the river
      [hole |-> Hand(<< <<"9", "clubs">>, <<"9", "diamonds">> >>),
       community |-> Hand(<< <<"6", "hearts">>, <<"7", "diamonds">>, <<"8", "clubs">>,
                             <<"K", "hearts">>, <<"2", "spades">> >>),
       opponents |-> 2],
      \* two high cards against two opponents on the flop
      [hole |-> Hand(<< <<"A", "hearts">>, <<"K", "diamonds">> >>),
       community |-> Hand(<< <<"Q", "hearts">>, <<"7", "hearts">>, <<"2", "clubs">> >>),
       opponents |-> 2],
      \* one hole card only
      [hole |-> Hand(<< <<"A", "spades">> >>),
       community |-> Hand(<< <<"Q", "spades">>, <<"J", "spades">>, <<"10", "spades">> >>),
       opponents |-> 1] }

ProbInit ==
    /\ \E in \in ProbInputs :
          /\ hole_cards = in.hole
          /\ community_cards = in.community
          /\ num_opponents = in.opponents
    /\ simulations \in 0..MaxSims
    /\ wins = 0 /\ ties = 0 /\ losses = 0 /\ sim = 0
    /\ prob_out = NoReport

\* "if len(hole_cards) != 2: return {'win': 0, 'tie': 0, 'lose': 0, 'hand_odds': {}}"
ReturnNeutral ==
    /\ prob_out.kind = "none"
    /\ Len(hole_cards) # 2
    /\ prob_out' = [kind |-> "neutral", win |-> 0, tie |-> 0, lose |-> 0]
    /\ UNCHANGED <<hole_cards, community_cards, num_opponents, simulations,
                   wins, ties, losses, sim, notProbVars>>

\* One pass of "for _ in range(simulations)"
Trial ==
    /\ prob_out.kind = "none"
    /\ Len(hole_cards) = 2
    /\ sim < simulations
    /\ \E deck \in Shuffles(remaining_cards(hole_cards \o community_cards),
                             CardsRead(community_cards, num_opponents)) :
          LET add == trial(hole_cards, community_cards, num_opponents, deck)
          IN /\ wins' = wins + add[1]
             /\ ties' = ties + add[2]
             /\ losses' = losses + add[3]
    /\ sim' = sim + 1
    /\ UNCHANGED <<hole_cards, community_cards, num_opponents, simulations, prob_out,
                   notProbVars>>

\* "total = simulations; return {'win': round((wins / total) * 100, 1), ...}"
ReturnReport ==
    /\ prob_out.kind = "none"
    /\ Len(hole_cards) = 2
    /\ sim = simulations
    /\ prob_out' = IF simulations = 0
                     THEN [kind |-> "ZeroDivisionError", win |-> 0, tie |-> 0, lose |-> 0]
                     ELSE [kind |-> "report",
                           win |-> round_percent(wins, simulations),
                           tie |-> round_percent(ties, simulations),
                           lose |-> round_percent(losses, simulations)]
    /\ UNCHANGED <<hole_cards, community_cards, num_opponents, simulations,
                   wins, ties, losses, sim, notProbVars>>

ProbNext ==
    \/ ReturnNeutral
    \/ Trial
    \/ ReturnReport

\* One call of the estimator, nothing else in use
InitProb == ProbInit /\ EvalIdle /\ PokerIdle /\ GameIdle /\ DeckIdle /\ PlayerIdle /\ AppIdle

SpecProb == InitProb /\ [][ProbNext]_vars

(***************************************************************************)
(* The evaluator applied to bounded inputs.  Hands are drawn from three     *)
(* small decks, each built around one family of categories.                 *)
(***************************************************************************)
\* Cards of each deck in play.
EvalDeckSize == 9

\* Players at a showdown.
MaxEvalPlayers == 3

FlushDeck ==
    << Card("A", "spades"), Card("K", "spades"), Card("Q", "spades"), Card("J", "spades"),
       Card("10", "spades"), Card("9", "spades"), Card("8", "spades"), Card("A", "hearts"),
       Card("K", "hearts"), Card("2", "spades"), Card("9", "hearts") >>

WheelDeck ==
    << Card("A", "clubs"), Card("2", "hearts"), Card("3", "diamonds"), Card("4", "clubs"),
       Card("5", "hearts"), Card("6", "diamonds"), Card("5", "clubs"), Card("3", "clubs"),
       Card("2", "clubs"), Card("7", "spades"), Card("A", "hearts") >>

PairDeck ==
    << Card("K", "spades"), Card("K", "hearts"), Card("Q", "diamonds"), Card("Q", "clubs"),
       Card("9", "spades"), Card("9", "hearts"), Card("K", "diamonds"), Card("K", "clubs"),
       Card("Q", "spades"), Card("2", "diamonds"), Card("9", "clubs") >>

EvalDecks == {SubSeq(d, 1, EvalDeckSize) : d \in {FlushDeck, WheelDeck, PairDeck}}

PlayerNames == <<"p1", "p2", "p3", "p4", "p5">>

RECURSIVE SetToSeq(_)
SetToSeq(S) == IF S = {} THEN <<>> ELSE <<Min(S)>> \o SetToSeq(S \ {Min(S)})

\* The cards of deck d at the positions S, in deck order.
Pick(d, S) == LET idx == SetToSeq(S) IN [i \in 1..Len(idx) |-> d[idx[i]]]

\* One player holding up to 7 cards of a deck.
SingleInputs ==
    { << <<PlayerNames[1], Pick(d, S)>> >> :
        d \in EvalDecks, S \in {T \in SUBSET (1..EvalDeckSize) : Cardinality(T) \in 0..7} }

\* The hands a showdown is drawn from: five of the first six cards, the first seven
\* cards, the last five cards.
TableHands(d) ==
    {Pick(d, (1..6) \ {i}) : i \in 1..6}
        \cup {SubSeq(d, 1, 7), SubSeq(d, Len(d) - 4, Len(d))}

TableInputs ==
    UNION { { [i \in 1..k |-> <<PlayerNames[i], h[i]>>] : h \in [1..k -> TableHands(d)] } :
              d \in EvalDecks, k \in 2..MaxEvalPlayers }

\* The orders a hand of n cards is passed in: as dealt, reversed, rotated, ends swapped.
Orders(n) ==
    { [i \in 1..n |-> i], [i \in 1..n |-> n + 1 - i], [i \in 1..n |-> (i % n) + 1],
      [i \in 1..n |-> IF i = 1 THEN n ELSE IF i = n THEN 1 ELSE i] }

Permuted(cards, order) == [i \in 1..Len(cards) |-> cards[order[i]]]

EvalInit ==
    /\ players_cards \in SingleInputs \cup TableInputs
    /\ eval_out = NoCall

\* evaluate_hand(cards) on one player's cards, passed in any order
CallEvaluateHand ==
    /\ eval_out.op = "none"
    /\ Len(players_cards) = 1
    /\ \E order \in Orders(Len(players_cards[1][2])) :
          LET cards == Permuted(players_cards[1][2], order)
          IN eval_out' = [op |-> "evaluate_hand", arg |-> cards,
                          result |-> evaluate_hand(cards)]
    /\ UNCHANGED <<players_cards, notEvalVars>>

\* best_hand(cards) on one player's cards, passed in any order
CallBestHand ==
    /\ eval_out.op = "none"
    /\ Len(players_cards) = 1
    /\ \E order \in Orders(Len(players_cards[1][2])) :
          LET cards == Permuted(players_cards[1][2], order)
          IN eval_out' = [op |-> "best_hand", arg |-> cards, result |-> best_hand(cards)]
    /\ UNCHANGED <<players_cards, notEvalVars>>

\* _compare_hands on the best hands of the first two players, both ways round
CallCompareHands ==
    /\ eval_out.op = "none"
    /\ Len(players_cards) = 2
    /\ LET a == best_hand(players_cards[1][2])
           b == best_hand(players_cards[2][2])
       IN eval_out' = [op |-> "_compare_hands",
                       arg |-> << <<a[2], a[3]>>, <<b[2], b[3]>> >>,
                       result |-> << _compare_hands(<<a[2], a[3]>>, <<b[2], b[3]>>),
                                     _compare_hands(<<b[2], b[3]>>, <<a[2], a[3]>>) >>]
    /\ UNCHANGED <<players_cards, notEvalVars>>

\* compare_players(players_cards)
CallComparePlayers ==
    /\ eval_out.op = "none"
    /\ Len(players_cards) >= 2
    /\ eval_out' = [op |-> "compare_players", arg |-> players_cards,
                    result |-> compare_players(players_cards)]
    /\ UNCHANGED <<players_cards, notEvalVars>>

EvalNext ==
    \/ CallEvaluateHand
    \/ CallBestHand
    \/ CallCompareHands
    \/ CallComparePlayers

\* Calls of the evaluator, nothing else in use
InitEval == EvalInit /\ ProbIdle /\ PokerIdle /\ GameIdle /\ DeckIdle /\ PlayerIdle /\ AppIdle

SpecEval == InitEval /\ [][EvalNext]_vars

(***************************************************************************)
(* Properties of the evaluator.                                            *)
(***************************************************************************)
\* The order on (category, tiebreakers): category first, then the tiebreaker lists
\* lexicographically.
HandLt(a, b) ==
    \/ a[1] < b[1]
    \/ /\ a[1] = b[1]
       /\ \E i \in 1..Len(a[2]) :
             /\ i <= Len(b[2])
             /\ \A j \in 1..(i - 1) : a[2][j] = b[2][j]
             /\ a[2][i] < b[2][i]

HandLeq(a, b) == a = b \/ HandLt(a, b)

ValuesOf(cards) == {value(cards[i]) : i \in 1..Len(cards)}

SuitsOf(cards) == {cards[i].suit : i \in 1..Len(cards)}

FiveCardHands(cards) ==
    {Pick(cards, S) : S \in {T \in SUBSET (1..Len(cards)) : Cardinality(T) = 5}}

\* The (category, tiebreakers) of a best_hand result
ScoreOf(best) == <<best[2], best[3]>>

\* C1: for 5 to 7 distinct cards, best_hand returns five of the input cards, their own
\* category and tiebreakers, and no five-card subset of the input scores higher.
C1_BestHandIsMaximum ==
    (eval_out.op = "best_hand" /\ Len(eval_out.arg) \in 5..7) =>
        LET r == eval_out.result
        IN /\ Len(r[1]) = 5
           /\ Cardinality(Range(r[1])) = 5
           /\ Range(r[1]) \subseteq Range(eval_out.arg)
           /\ evaluate_hand(r[1]) = <<r[2], r[3], r[4]>>
           /\ \A h \in FiveCardHands(eval_out.arg) :
                 LET e == evaluate_hand(h) IN HandLeq(<<e[1], e[2]>>, ScoreOf(r))

\* A seven-card input whose best hand, a full house, is not its first five cards.
C1_Witness ==
    /\ eval_out.op = "best_hand"
    /\ Len(eval_out.arg) = 7
    /\ eval_out.result[2] = FULL_HOUSE
    /\ eval_out.result[1] # SubSeq(eval_out.arg, 1, 5)

IsMixedWheel(cards) ==
    Len(cards) = 5 /\ ValuesOf(cards) = {14, 2, 3, 4, 5} /\ Cardinality(SuitsOf(cards)) > 1

IsSixHighStraight(cards) == Len(cards) = 5 /\ ValuesOf(cards) = 2..6

IsOnePairHand(cards) ==
    /\ Len(cards) = 5
    /\ Cardinality(ValuesOf(cards)) = 4

\* C5: A,2,3,4,5 of mixed suits is a STRAIGHT led by 5; it compares below every 6-high
\* straight and above every one-pair hand.
C5_WheelIsFiveHigh ==
    /\ (eval_out.op = "evaluate_hand" /\ IsMixedWheel(eval_out.arg)) =>
          /\ eval_out.result[1] = STRAIGHT
          /\ eval_out.result[2][1] = 5
          /\ 14 \notin Range(eval_out.result[2])
    /\ (eval_out.op = "_compare_hands" /\ IsMixedWheel(players_cards[1][2])) =>
          /\ IsSixHighStraight(players_cards[2][2]) => eval_out.result[1] < 0
          /\ IsOnePairHand(players_cards[2][2]) => eval_out.result[1] > 0

\* The wheel compared with a 6-high straight.
C5_Witness ==
    /\ eval_out.op = "_compare_hands"
    /\ IsMixedWheel(players_cards[1][2])
    /\ IsSixHighStraight(players_cards[2][2])

\* The wheel compared with a one-pair hand.
C5_WitnessPair ==
    /\ eval_out.op = "_compare_hands"
    /\ IsMixedWheel(players_cards[1][2])
    /\ IsOnePairHand(players_cards[2][2])

\* The wheel evaluated.
C5_WitnessEvaluate == eval_out.op = "evaluate_hand" /\ IsMixedWheel(eval_out.arg)

\* C6: comparing two hands the other way round negates the result, and the order in
\* which cards are passed changes neither the category nor the tiebreakers.
C6_AntisymmetricAndOrderFree ==
    /\ eval_out.op = "_compare_hands" => eval_out.result[1] = -eval_out.result[2]
    /\ (eval_out.op = "evaluate_hand" /\ eval_out.result # ValueError) =>
          eval_out.result = evaluate_hand(players_cards[1][2])
    /\ (eval_out.op = "best_hand" /\ eval_out.result # ValueError) =>
          ScoreOf(eval_out.result) = ScoreOf(best_hand(players_cards[1][2]))

\* Cards passed in another order than dealt, for which best_hand picks other cards.
C6_Witness ==
    /\ eval_out.op = "best_hand"
    /\ eval_out.result # ValueError
    /\ eval_out.arg # players_cards[1][2]
    /\ Range(eval_out.result[1]) # Range(best_hand(players_cards[1][2])[1])

\* Two different hands compared, the first the better.
C6_WitnessCompare ==
    eval_out.op = "_compare_hands" /\ eval_out.result[1] > 0

\* The index of the player called name in the list pcs
IndexOfName(pcs, name) == CHOOSE i \in 1..Len(pcs) : pcs[i][1] = name

\* C7: compare_players lists every player once, best first; a player's rank position
\* is 1 plus the number of players with a strictly better hand, so equal hands, and
\* only equal hands, share a position.
C7_CompetitionRanking ==
    eval_out.op = "compare_players" =>
        LET pcs == eval_out.arg
            res == eval_out.result
            score == [i \in 1..Len(pcs) |-> ScoreOf(best_hand(pcs[i][2]))]
            who == [k \in 1..Len(res) |-> IndexOfName(pcs, res[k][1])]
        IN /\ Len(res) = Len(pcs)
           /\ {res[k][1] : k \in 1..Len(res)} = {pcs[i][1] : i \in 1..Len(pcs)}
           /\ res[1][2] = 1
           /\ \A k \in 1..Len(res) :
                 /\ res[k][2] = 1 + Cardinality({i \in 1..Len(pcs) :
                                                   HandLt(score[who[k]], score[i])})
                 /\ res[k][3] = NAMES[score[who[k]][1]]
           /\ \A k, m \in 1..Len(res) :
                 /\ k < m => ~HandLt(score[who[k]], score[who[m]])
                 /\ res[k][2] = res[m][2] <=> score[who[k]] = score[who[m]]

\* Three players, two of them tied for first with different cards: positions 1, 1, 3.
C7_Witness ==
    /\ eval_out.op = "compare_players"
    /\ Len(eval_out.result) = 3
    /\ eval_out.result[1][2] = 1
    /\ eval_out.result[2][2] = 1
    /\ eval_out.result[3][2] = 3
    /\ eval_out.arg[1][2] # eval_out.arg[2][2]
    /\ eval_out.arg[1][2] # eval_out.arg[3][2]
    /\ eval_out.arg[2][2] # eval_out.arg[3][2]

HasRoyalCards(cards) ==
    \E suit \in Range(SUITS) :
        \A rank \in {"10", "J", "Q", "K", "A"} : Card(rank, suit) \in Range(cards)

\* Five cards of one suit in sequence, the highest below the Ace (the Ace of
\* A,2,3,4,5 is low)
IsLowerStraightFlush(cards) ==
    /\ Len(cards) = 5
    /\ Cardinality(SuitsOf(cards)) = 1
    /\ \/ ValuesOf(cards) = {14, 2, 3, 4, 5}
       \/ \E lo \in 2..9 : ValuesOf(cards) = lo..(lo + 4)

\* C8: cards that contain 10, J, Q, K, A of one suit are a ROYAL_FLUSH; a same-suit
\* straight not topped by the Ace is a STRAIGHT_FLUSH.
C8_RoyalFlush ==
    /\ (eval_out.op = "evaluate_hand" /\ eval_out.result # ValueError) =>
          /\ HasRoyalCards(eval_out.arg) =>
                eval_out.result[1] = ROYAL_FLUSH /\ eval_out.result[3] = "Royal Flush"
          /\ IsLowerStraightFlush(eval_out.arg) =>
                eval_out.result[1] = STRAIGHT_FLUSH /\ eval_out.result[3] = "Straight Flush"
    /\ (eval_out.op = "best_hand" /\ eval_out.result # ValueError
            /\ HasRoyalCards(eval_out.arg)) =>
          eval_out.result[2] = ROYAL_FLUSH /\ eval_out.result[4] = "Royal Flush"

\* A and K of spades with Q, J, 10 of spades.
C8_Witness ==
    /\ eval_out.op \in {"evaluate_hand", "best_hand"}
    /\ eval_out.result # ValueError
    /\ eval_out.arg = << Card("A", "spades"), Card("K", "spades"), Card("Q", "spades"),
                         Card("J", "spades"), Card("10", "spades") >>

\* Seven cards holding a royal flush.
C8_WitnessSeven ==
    /\ eval_out.op = "best_hand"
    /\ Len(eval_out.arg) = 7
    /\ HasRoyalCards(eval_out.arg)

\* The Ace-low straight flush evaluated.
C8_WitnessAceLow ==
    /\ eval_out.op = "evaluate_hand"
    /\ IsLowerStraightFlush(eval_out.arg)
    /\ 14 \in ValuesOf(eval_out.arg)

\* C13: evaluate_hand raises ValueError for every number of cards other than 5, and
\* best_hand raises ValueError for every input of fewer than 5 cards; neither returns
\* a hand.
C13_TooFewCardsRejected ==
    /\ (eval_out.op = "evaluate_hand" /\ Len(eval_out.arg) # 5) => eval_out.result = ValueError
    /\ (eval_out.op = "best_hand" /\ Len(eval_out.arg) < 5) => eval_out.result = ValueError

\* best_hand called with four cards
C13_Witness ==
    /\ eval_out.op = "best_hand"
    /\ Len(eval_out.arg) = 4
    /\ eval_out.result = ValueError

(***************************************************************************)
(* Properties of the win-probability estimate.                             *)
(***************************************************************************)
\* A trial adds one to exactly one of the three counters
OneCounterUp ==
    \/ wins' = wins + 1 /\ ties' = ties /\ losses' = losses
    \/ wins' = wins /\ ties' = ties + 1 /\ losses' = losses
    \/ wins' = wins /\ ties' = ties /\ losses' = losses + 1

\* C9: every simulated trial counts as exactly one of win, tie and loss, so the three
\* counters always add up to the trials done, to the simulation count when the
\* percentages are reported, and the reported percentages add up to 100 give or take
\* one tenth (the rounding to one decimal).
C9_Partition ==
    /\ [](/\ wins + ties + losses = sim
          /\ prob_out.kind = "report" =>
                /\ wins + ties + losses = simulations
                /\ prob_out.win + prob_out.tie + prob_out.lose \in 999..1001)
    /\ [][sim' # sim => sim' = sim + 1 /\ OneCounterUp]_vars

\* Three trials, one won, one tied and one lost, reported as 33.3 each.
C9_Witness ==
    /\ prob_out.kind = "report"
    /\ wins = 1 /\ ties = 1 /\ losses = 1
    /\ prob_out.win + prob_out.tie + prob_out.lose = 999

\* The ten to the Ace of one suit are among the player's seven cards on the river
MadeRoyalFlushOnRiver ==
    /\ Len(hole_cards) = 2
    /\ Len(community_cards) = 5
    /\ num_opponents = 1
    /\ HasRoyalCards(hole_cards \o community_cards)

\* C10 as stated: with a made royal flush on the river against one opponent no trial
\* is ever a tie or a loss and the report is win 100, tie 0, lose 0.
C10_AsStated ==
    MadeRoyalFlushOnRiver =>
        /\ ties = 0 /\ losses = 0
        /\ prob_out.kind = "report" =>
              prob_out.win = 1000 /\ prob_out.tie = 0 /\ prob_out.lose = 0

\* C10 (amended): with a made royal flush on the river against one opponent, at least
\* one card of which is a hole card, no trial is ever a tie or a loss and the report is
\* win 100, tie 0, lose 0.
C10_RoyalFlushInHand ==
    (MadeRoyalFlushOnRiver /\ ~HasRoyalCards(community_cards)) =>
        /\ ties = 0 /\ losses = 0
        /\ prob_out.kind = "report" =>
              prob_out.win = 1000 /\ prob_out.tie = 0 /\ prob_out.lose = 0

\* The report of a royal flush made with a hole card, after three trials.
C10_Witness ==
    /\ MadeRoyalFlushOnRiver /\ ~HasRoyalCards(community_cards)
    /\ prob_out.kind = "report"
    /\ sim = MaxSims

(***************************************************************************)
(* probability.py: calculate_hand_odds and get_outs                        *)
(***************************************************************************)
\* "return {'outs': 0, 'odds': '0%', 'draws': []}"
NoOuts == [kind |-> "outs", outs |-> 0, odds |-> 0, draws |-> <<>>]

\* Mutant of improves: a card that keeps the category counts as an out.
improves_or_equal(new_rank, current_rank) == new_rank >= current_rank

\* get_outs: "if new_rank > current_rank"
improves(new_rank, current_rank) == new_rank > current_rank

\* get_outs, "for card in remaining_cards: ... best_hand(test_cards)": the best hand
\* with each remaining card added
hands_with(all_cards, remaining) ==
    [k \in 1..Len(remaining) |-> best_hand(Append(all_cards, remaining[k]))]

\* The positions in remaining_cards of the cards appended to outs
out_indices(news, current_rank) ==
    LET is_out(k) == improves(news[k][2], current_rank)
    IN SelectSeq([k \in 1..Len(news) |-> k], is_out)

\* "if new_name not in draws: draws.append(new_name)": the names in order of first
\* appearance
draws_of(names) ==
    LET is_new(i) == \A j \in 1..(i - 1) : names[j] # names[i]
        kept == SelectSeq([i \in 1..Len(names) |-> i], is_new)
    IN [i \in 1..Len(kept) |-> names[kept[i]]]

\* <<outs, draws>>: the cards appended to outs and the names of the hands they make
outs_found(remaining, news, idx) ==
    <<[i \in 1..Len(idx) |-> remaining[idx[i]]],
      draws_of([i \in 1..Len(idx) |-> news[idx[i]][4]])>>

OutsLoop(remaining, news, current_rank) ==
    outs_found(remaining, news, out_indices(news, current_rank))

\* get_outs, "# Calculate odds", in tenths of a percent
outs_odds(num_outs, cards_to_come, known) ==
    IF cards_to_come = 2
    THEN round_percent(47 * 46 - (47 - num_outs) * (46 - num_outs), 47 * 46)
    ELSE round_percent(num_outs, 52 - known)

\* get_outs from the first best_hand call on
outs_report(all_cards, current, found, cards_to_come) ==
    [kind |-> "outs", outs |-> Len(found[1]),
     odds |-> outs_odds(Len(found[1]), cards_to_come, Len(all_cards)),
     draws |-> found[2], current_hand |-> current[4]]

outs_counted(all_cards, current, cards_to_come) ==
    IF current = ValueError THEN [kind |-> "ValueError"]
    ELSE outs_report(all_cards, current,
                     OutsLoop(remaining_cards(all_cards),
                              hands_with(all_cards, remaining_cards(all_cards)), current[2]),
                     cards_to_come)

\* WinProbabilityCalculator.get_outs
get_outs(hole, community) ==
    IF Len(community) < 3 \/ Len(community) >= 5 THEN NoOuts
    ELSE outs_counted(hole \o community, best_hand(hole \o community), 5 - Len(community))

\* calculate_hand_odds with one card to come: every remaining card is sampled once;
\* the names of the hands made, then the percentage of each name that was made
hands_made(news) == [k \in 1..Len(news) |-> news[k][4]]

odds_by_name(names) ==
    {<<name, round_percent(Count(names, name), Len(names))>> : name \in Range(names)}

\* WinProbabilityCalculator.calculate_hand_odds, for at most one card to come
calculate_hand_odds(hole, community) ==
    IF Len(hole) # 2 THEN [kind |-> "hand_odds", odds |-> {}]
    ELSE IF 5 - Len(community) <= 0 THEN [kind |-> "hand_odds", odds |-> {}]
    ELSE [kind |-> "hand_odds",
          odds |-> odds_by_name(hands_made(hands_with(hole \o community,
                                                      remaining_cards(hole \o community))))]

(***************************************************************************)
(* The three entry points of the estimator applied to 0 to 2 hole cards    *)
(* and 0 to 5 community cards.                                             *)
(***************************************************************************)
MaxHoleCards == 2

MaxCommunityCards == 5

\* Seven cards each: the first two are the hole cards, the others the board in order
OutsDecks ==
    { \* a flush draw on the flop
      Hand(<< <<"A", "hearts">>, <<"K", "hearts">>, <<"Q", "hearts">>, <<"7", "hearts">>,
              <<"2", "clubs">>, <<"9", "spades">>, <<"3", "diamonds">> >>),
      \* three of a kind on the flop
      Hand(<< <<"9", "clubs">>, <<"9", "diamonds">>, <<"9", "hearts">>, <<"6", "spades">>,
              <<"K", "diamonds">>, <<"2", "clubs">>, <<"5", "hearts">> >>),
      \* a straight flush on the flop
      Hand(<< <<"5", "spades">>, <<"6", "spades">>, <<"7", "spades">>, <<"8", "spades">>,
              <<"9", "spades">>, <<"K", "diamonds">>, <<"2", "hearts">> >>) }

OutsInit ==
    /\ \E d \in OutsDecks, h \in 0..MaxHoleCards, c \in 0..MaxCommunityCards :
          /\ hole_cards = SubSeq(d, 1, h)
          /\ community_cards = SubSeq(d, 3, 2 + c)
    /\ num_opponents = 1 /\ simulations = 0
    /\ wins = 0 /\ ties = 0 /\ losses = 0 /\ sim = 0
    /\ prob_out = NoReport
    /\ EvalIdle /\ PokerIdle /\ GameIdle /\ DeckIdle /\ PlayerIdle /\ AppIdle

CallGetOuts ==
    /\ prob_out.kind = "none"
    /\ prob_out' = get_outs(hole_cards, community_cards)
    /\ UNCHANGED <<hole_cards, community_cards, num_opponents, simulations,
                   wins, ties, losses, sim, notProbVars>>

\* More than one card to come makes calculate_hand_odds draw a random sample of the
\* combinations; those calls are left out.
CallCalculateHandOdds ==
    /\ prob_out.kind = "none"
    /\ Len(hole_cards) # 2 \/ Len(community_cards) >= 4
    /\ prob_out' = calculate_hand_odds(hole_cards, community_cards)
    /\ UNCHANGED <<hole_cards, community_cards, num_opponents, simulations,
                   wins, ties, losses, sim, notProbVars>>

OutsNext ==
    \/ ReturnNeutral
    \/ CallCalculateHandOdds
    \/ CallGetOuts

SpecOuts == OutsInit /\ [][OutsNext]_vars

\* What an entry point gives back when it has nothing to report
NeutralResult ==
    \/ prob_out = [kind |-> "neutral", win |-> 0, tie |-> 0, lose |-> 0]
    \/ prob_out = [kind |-> "hand_odds", odds |-> {}]
    \/ prob_out = NoOuts

\* C11: with fewer than 2 hole cards, whatever the number of community cards,
\* calculate_win_probability, calculate_hand_odds and get_outs raise no error and
\* return their empty or neutral result.
C11_NeutralWithoutHoleCards ==
    (Len(hole_cards) < 2 /\ prob_out.kind # "none") => NeutralResult

\* The highest category among the five-card hands of the cards
BestCategory(cards) == Max({evaluate_hand(h)[1] : h \in FiveCardHands(cards)})

\* The unseen cards that raise the category of the best hand
OutCards(known) ==
    {c \in Range(FullDeck) \ Range(known) :
        BestCategory(Append(known, c)) > BestCategory(known)}

\* C12: with 2 hole cards and 3 or 4 community cards get_outs reports the number of
\* unseen cards that strictly raise the category of the best hand; with any other
\* number of community cards it reports 0 outs.
C12_OutsCount ==
    (Len(hole_cards) = 2 /\ prob_out.kind = "outs") =>
        IF Len(community_cards) \in {3, 4}
        THEN prob_out.outs = Cardinality(OutCards(hole_cards \o community_cards))
        ELSE prob_out.outs = 0

\* The outs of the flush draw on the flop: some cards are outs, some are not.
C12_Witness ==
    /\ Len(hole_cards) = 2 /\ Len(community_cards) = 3
    /\ prob_out.kind = "outs"
    /\ prob_out.outs \in 1..46

(***************************************************************************)
(* player.py: Player (the hand of cards is left out here)                  *)
(***************************************************************************)
Player(chips) ==
    [chips |-> chips, current_bet |-> 0, total_bet_this_round |-> 0,
     is_folded |-> FALSE, is_all_in |-> FALSE]

clear_hand(p) ==
    [p EXCEPT !.current_bet = 0, !.total_bet_this_round = 0,
              !.is_folded = FALSE, !.is_all_in = FALSE]

\* Mutant of actual_bet: the amount asked for is committed whatever the stack.
actual_bet_uncapped(p, amount) == amount

\* "actual_bet = min(amount, self.chips)": what bet returns
actual_bet(p, amount) == IF amount < p.chips THEN amount ELSE p.chips

\* Mutant of bet: the stack pays the amount asked for, not the amount committed.
bet_uncapped(p, amount) ==
    [p EXCEPT !.chips = @ - amount,
              !.current_bet = @ + actual_bet(p, amount),
              !.total_bet_this_round = @ + actual_bet(p, amount),
              !.is_all_in = IF p.chips - amount = 0 THEN TRUE ELSE @]

bet(p, amount) ==
    [p EXCEPT !.chips = @ - actual_bet(p, amount),
              !.current_bet = @ + actual_bet(p, amount),
              !.total_bet_this_round = @ + actual_bet(p, amount),
              !.is_all_in = IF p.chips - actual_bet(p, amount) = 0 THEN TRUE ELSE @]

fold(p) == [p EXCEPT !.is_folded = TRUE]

\* Mutant of win_pot: the amount won replaces the stack.
win_pot_replacing(p, amount) == [p EXCEPT !.chips = amount]

\* Mutant of win_pot: the amount won is not added to the stack.
win_pot_unpaid(p, amount) == p

win_pot(p, amount) == [p EXCEPT !.chips = @ + amount]

reset_current_bet(p) == [p EXCEPT !.current_bet = 0]

is_active(p) == ~p.is_folded /\ p.chips > 0

\* Mutant of can_act: a player who is all-in may still act.
can_act_when_all_in(p) == is_active(p)

can_act(p) == is_active(p) /\ ~p.is_all_in

(***************************************************************************)
(* The betting engine (PokerGame), which app.py drives through             *)
(* start_new_hand and player_action.  The cards are left out: who wins a   *)
(* showdown is any non-empty set of the players still in the hand.         *)
(***************************************************************************)
small_blind == 1

big_blind == 2

BettingPhases == {"PRE_FLOP", "FLOP", "TURN", "RIVER"}

\* Mutant of NextStreet: the flop is dealt and the turn is entered in one advance.
NextStreetSkipping == [PRE_FLOP |-> "TURN", FLOP |-> "TURN", TURN |-> "RIVER"]

NextStreet == [PRE_FLOP |-> "FLOP", FLOP |-> "TURN", TURN |-> "RIVER"]

in_hand(p) == ~p.is_folded

funded(p) == p.chips > 0

\* The seats whose players are funded, and those whose players can act
FundedSeats(ps) == {j \in 1..Len(ps) : funded(ps[j])}

ActingSeats(ps) == {j \in 1..Len(ps) : can_act(ps[j])}

\* The first of the seats after `from`, in seat order and coming round to `from`
\* itself; 0 when there is none.
NextSeatIn(n, from, seats) ==
    LET steps == {d \in 1..n : ((from + d - 1) % n) + 1 \in seats}
    IN IF steps = {} THEN 0 ELSE ((from + Min(steps) - 1) % n) + 1

\* The pot split evenly among the winners, the remainder to the first of them
award(ps, thepot, winners) ==
    [j \in 1..Len(ps) |->
        IF j \in winners
        THEN win_pot(ps[j], (thepot \div Cardinality(winners))
                            + (IF j = Min(winners) THEN thepot % Cardinality(winners) ELSE 0))
        ELSE ps[j]]

\* What the player in seat i has to add to match the bet level
amount_to_call(ps, i, bet_level) == bet_level - ps[i].current_bet

\* Mutant of poker_valid_actions: raise is offered to every player with chips.
poker_valid_actions_raise_always(ps, i, bet_level) ==
    IF ~can_act(ps[i]) THEN {}
    ELSE {"fold", "all_in", "raise"}
         \cup (IF amount_to_call(ps, i, bet_level) = 0 THEN {"check"} ELSE {"call"})

\* getValidActions(player) for the player to act: fold and all_in, check when nothing
\* is owed and call otherwise, raise when the stack is more than the call
poker_valid_actions(ps, i, bet_level) ==
    IF ~can_act(ps[i]) THEN {}
    ELSE {"fold", "all_in"}
         \cup (IF amount_to_call(ps, i, bet_level) = 0 THEN {"check"} ELSE {"call"})
         \cup (IF ps[i].chips > amount_to_call(ps, i, bet_level) THEN {"raise"} ELSE {})

\* last_winners: the winners in seat order, each with the amount paid
paid(ps, thepot, winners) ==
    [r \in 1..Cardinality(winners) |->
        LET j == CHOOSE w \in winners : Cardinality({v \in winners : v < w}) = r - 1
        IN [seat |-> j, amount |-> award(ps, thepot, winners)[j].chips - ps[j].chips]]

\* What follows an accepted action of seat i: a fold win, the next actor, the next
\* street, or the showdown.
Proceed(ps, thepot, bet_level, raise_min, raiser, i) ==
    LET unfolded == {j \in 1..Len(ps) : in_hand(ps[j])}
        actors == ActingSeats(ps)
        next == NextSeatIn(Len(ps), i, ActingSeats(ps))
        round_complete == \/ next = 0
                          \/ next = raiser
                          \/ \A j \in actors : ps[j].current_bet = bet_level
    IN /\ pot' = thepot
       /\ poker_result' = "ok"
       /\ UNCHANGED <<dealer_index, hand_start_chips, hands_played>>
       /\ IF Cardinality(unfolded) = 1
          THEN /\ poker_players' = award(ps, thepot, unfolded)
               /\ poker_phase' = "HAND_COMPLETE"
               /\ phase_path' = <<"HAND_COMPLETE">>
               /\ last_winners' = paid(ps, thepot, unfolded)
               /\ current_bet' = bet_level /\ min_raise' = raise_min
               /\ last_raiser_index' = raiser /\ acting_index' = i
          ELSE IF ~round_complete
          THEN /\ poker_players' = ps
               /\ acting_index' = next
               /\ current_bet' = bet_level /\ min_raise' = raise_min
               /\ last_raiser_index' = raiser
               /\ phase_path' = <<>>
               /\ UNCHANGED <<poker_phase, last_winners>>
          ELSE IF Cardinality(actors) <= 1 \/ poker_phase = "RIVER"
          THEN \E winners \in SUBSET unfolded \ {{}} :
                  /\ poker_players' = award(ps, thepot, winners)
                  /\ poker_phase' = "HAND_COMPLETE"
                  /\ phase_path' = <<"SHOWDOWN", "HAND_COMPLETE">>
                  /\ last_winners' = paid(ps, thepot, winners)
                  /\ current_bet' = bet_level /\ min_raise' = raise_min
                  /\ last_raiser_index' = raiser /\ acting_index' = i
          ELSE /\ poker_players' = [j \in 1..Len(ps) |-> reset_current_bet(ps[j])]
               /\ poker_phase' = NextStreet[poker_phase]
               /\ phase_path' = <<NextStreet[poker_phase]>>
               /\ UNCHANGED last_winners
               /\ current_bet' = 0 /\ min_raise' = big_blind
               /\ acting_index' = NextSeatIn(Len(ps), dealer_index, ActingSeats(ps))
               /\ last_raiser_index' = NextSeatIn(Len(ps), dealer_index, ActingSeats(ps))

Rejected(error) ==
    /\ poker_result' = error
    /\ phase_path' = <<>>
    /\ UNCHANGED <<poker_players, pot, current_bet, min_raise, dealer_index,
                   last_raiser_index, acting_index, poker_phase, hand_start_chips,
                   hands_played, last_winners>>

\* Seats at the table.
PokerSeats == 3

\* Hands started at one table.
MaxHands == 2

\* The highest total a raise is asked to.
MaxRaiseTo == 5

StartStacks == {0, 3, 5}

PokerInit ==
    /\ poker_players \in [1..PokerSeats -> {Player(c) : c \in StartStacks}]
    /\ pot = 0 /\ current_bet = 0 /\ min_raise = big_blind
    /\ dealer_index = 0 /\ last_raiser_index = 0 /\ acting_index = 0
    /\ poker_phase = "WAITING"
    /\ hand_start_chips = [j \in 1..PokerSeats |-> poker_players[j].chips]
    /\ hands_played = 0
    /\ poker_result = "none"
    /\ phase_path = <<>> /\ last_winners = <<>>

\* start_new_hand(): needs two funded players; resets the players, moves the button,
\* posts the blinds (heads-up the dealer posts the small blind).
start_new_hand_of(ps) ==
    /\ IF Cardinality(FundedSeats(ps)) < 2
       THEN Rejected("InsufficientPlayers")
       ELSE LET cleared == [j \in 1..Len(ps) |->
                              IF funded(ps[j])
                              THEN clear_hand(ps[j])
                              ELSE fold(clear_hand(ps[j]))]
                dealer == NextSeatIn(Len(ps), dealer_index, FundedSeats(ps))
                heads_up == Cardinality(FundedSeats(ps)) = 2
                sb == IF heads_up THEN dealer
                      ELSE NextSeatIn(Len(ps), dealer, FundedSeats(ps))
                bb == NextSeatIn(Len(ps), sb, FundedSeats(ps))
                posted == [cleared EXCEPT ![sb] = bet(@, small_blind),
                                          ![bb] = bet(@, big_blind)]
                thepot == actual_bet(cleared[sb], small_blind)
                          + actual_bet(cleared[bb], big_blind)
                first == NextSeatIn(Len(posted), bb, ActingSeats(posted))
            IN /\ pot' = thepot
               /\ current_bet' = big_blind /\ min_raise' = big_blind
               /\ dealer_index' = dealer
               /\ last_raiser_index' = bb
               /\ hand_start_chips' = [j \in 1..Len(ps) |-> ps[j].chips]
               /\ hands_played' = hands_played + 1
               /\ poker_result' = "ok"
               /\ IF first # 0
                  THEN /\ poker_players' = posted
                       /\ acting_index' = first
                       /\ poker_phase' = "PRE_FLOP"
                       /\ phase_path' = <<"PRE_FLOP">>
                       /\ last_winners' = <<>>
                  ELSE \E winners \in SUBSET {sb, bb} \ {{}} :
                          /\ poker_players' = award(posted, thepot, winners)
                          /\ acting_index' = bb
                          /\ poker_phase' = "HAND_COMPLETE"
                          /\ phase_path' = <<"PRE_FLOP", "SHOWDOWN", "HAND_COMPLETE">>
                          /\ last_winners' = paid(posted, thepot, winners)

start_new_hand ==
    /\ poker_phase \in {"WAITING", "HAND_COMPLETE"}
    /\ hands_played < MaxHands
    /\ start_new_hand_of(poker_players)
    /\ UNCHANGED notPokerVars

\* player_action(name, action, amount) under the name of a seat that is not to act
PlayerOutOfTurn ==
    /\ poker_phase \in BettingPhases
    /\ \E i \in 1..Len(poker_players) : i # acting_index
    /\ Rejected("NotPlayersTurn")
    /\ UNCHANGED notPokerVars

\* player_action(name, 'fold')
fold_action ==
    Proceed([poker_players EXCEPT ![acting_index] = fold(@)],
            pot, current_bet, min_raise, last_raiser_index, acting_index)

PlayerFold ==
    /\ poker_phase \in BettingPhases
    /\ fold_action
    /\ UNCHANGED notPokerVars

\* player_action(name, 'check')
check_action ==
    IF poker_players[acting_index].current_bet # current_bet
    THEN Rejected("IllegalCheck")
    ELSE Proceed(poker_players, pot, current_bet, min_raise, last_raiser_index,
                 acting_index)

PlayerCheck ==
    /\ poker_phase \in BettingPhases
    /\ check_action
    /\ UNCHANGED notPokerVars

\* player_action(name, 'call'): current_bet - commitment, capped at the stack
call_action ==
    LET p == poker_players[acting_index]
        to_call == current_bet - p.current_bet
    IN IF to_call = 0
       THEN Rejected("NothingToCall")
       ELSE Proceed([poker_players EXCEPT ![acting_index] = bet(@, to_call)],
                    pot + actual_bet(p, to_call), current_bet, min_raise,
                    last_raiser_index, acting_index)

PlayerCall ==
    /\ poker_phase \in BettingPhases
    /\ call_action
    /\ UNCHANGED notPokerVars

\* player_action(name, 'raise', amount): amount is the total commitment aimed at
PlayerRaise ==
    /\ poker_phase \in BettingPhases
    /\ \E amount \in 1..MaxRaiseTo :
          LET p == poker_players[acting_index]
              shove == amount - p.current_bet >= p.chips
              raised == bet(p, amount - p.current_bet)
              increment == raised.current_bet - current_bet
          IN IF amount - current_bet < min_raise /\ ~shove
             THEN Rejected("RaiseBelowMinimum")
             ELSE Proceed([poker_players EXCEPT ![acting_index] = raised],
                          pot + actual_bet(p, amount - p.current_bet),
                          IF increment > 0 THEN raised.current_bet ELSE current_bet,
                          IF increment >= min_raise THEN increment ELSE min_raise,
                          acting_index, acting_index)
    /\ UNCHANGED notPokerVars

\* player_action(name, 'all_in')
all_in_action ==
    LET p == poker_players[acting_index]
        shoved == bet(p, p.chips)
    IN Proceed([poker_players EXCEPT ![acting_index] = shoved],
               pot + actual_bet(p, p.chips),
               IF shoved.current_bet > current_bet THEN shoved.current_bet ELSE current_bet,
               min_raise,
               IF shoved.current_bet > current_bet THEN acting_index
               ELSE last_raiser_index,
               acting_index)

PlayerAllIn ==
    /\ poker_phase \in BettingPhases
    /\ all_in_action
    /\ UNCHANGED notPokerVars

PokerNext ==
    \/ start_new_hand
    \/ PlayerOutOfTurn
    \/ PlayerFold
    \/ PlayerCheck
    \/ PlayerCall
    \/ PlayerRaise
    \/ PlayerAllIn

\* One table of the betting engine, nothing else in use
InitPoker == PokerInit /\ EvalIdle /\ ProbIdle /\ GameIdle /\ DeckIdle /\ PlayerIdle /\ AppIdle

SpecPoker == InitPoker /\ [][PokerNext]_vars

(***************************************************************************)
(* Properties of the chips.                                                *)
(***************************************************************************)
RECURSIVE SumOver(_, _)
SumOver(f, S) ==
    IF S = {} THEN 0 ELSE LET j == Min(S) IN f[j] + SumOver(f, S \ {j})

ChipsAtTable == SumOver([j \in 1..Len(poker_players) |-> poker_players[j].chips],
                        1..Len(poker_players))

ChipsAtHandStart == SumOver(hand_start_chips, 1..Len(hand_start_chips))

\* C2: while a hand is being bet, what the players have paid since the hand started
\* is exactly the pot; when the hand is complete the players together hold what they
\* held when it started; no stack is ever negative.
C2_ChipConservation ==
    /\ poker_phase \in BettingPhases => ChipsAtHandStart - ChipsAtTable = pot
    /\ poker_phase \in {"WAITING", "HAND_COMPLETE"} => ChipsAtTable = ChipsAtHandStart
    /\ \A j \in 1..Len(poker_players) : poker_players[j].chips >= 0

\* A hand that ended with a player all-in and an odd pot paid out.
C2_Witness ==
    /\ poker_phase = "HAND_COMPLETE"
    /\ pot % 2 = 1 /\ pot >= 5
    /\ \E j \in 1..Len(poker_players) : poker_players[j].is_all_in
    /\ hands_played = MaxHands

\* The seat that holds the acting turn, while bets are being taken
HoldsTurn(j) == poker_phase \in BettingPhases /\ acting_index = j

\* C17: at most one seat holds the acting turn; a player whose is_folded or is_all_in
\* flag is set cannot act (can_act is false), does not hold the turn and is not
\* given it.
C17_TurnOnlyToActors ==
    /\ [](\A j, k \in 1..Len(poker_players) : (HoldsTurn(j) /\ HoldsTurn(k)) => j = k)
    /\ [](\A j \in 1..Len(poker_players) :
            (poker_players[j].is_folded \/ poker_players[j].is_all_in) =>
                ~can_act(poker_players[j]) /\ ~HoldsTurn(j))
    /\ [][\A j \in 1..Len(poker_players) :
            (HoldsTurn(j)' /\ ~HoldsTurn(j)) => can_act(poker_players'[j])]_vars

\* The turn is with the one player left to act: another has folded, another is all-in
C17_Witness ==
    /\ \E j \in 1..Len(poker_players) : HoldsTurn(j) /\ can_act(poker_players[j])
    /\ \E j \in 1..Len(poker_players) : poker_players[j].is_folded
    /\ \E j \in 1..Len(poker_players) : poker_players[j].is_all_in

\* The phase changes of the state machine: the streets in order, the showdown after
\* the river and the end of the hand after it, the fold shortcut from a betting phase
\* to the end of the hand, the runout from a betting phase to the showdown, and the
\* next hand after a complete one
PhaseSteps ==
    {<<"WAITING", "PRE_FLOP">>, <<"PRE_FLOP", "FLOP">>, <<"FLOP", "TURN">>,
     <<"TURN", "RIVER">>, <<"RIVER", "SHOWDOWN">>, <<"SHOWDOWN", "HAND_COMPLETE">>,
     <<"HAND_COMPLETE", "PRE_FLOP">>}
    \cup {<<b, "HAND_COMPLETE">> : b \in BettingPhases}
    \cup {<<b, "SHOWDOWN">> : b \in BettingPhases}

\* The phases of one call, from the phase it was made in
PhasesOfCall == <<poker_phase>> \o phase_path'

\* Every player who can act has matched the bet level
AllMatched(ps, bet_level) == \A j \in ActingSeats(ps) : ps[j].current_bet = bet_level

Unfolded(ps) == {j \in 1..Len(ps) : in_hand(ps[j])}

\* The call just made was a fold, in a betting phase
FoldMade ==
    /\ poker_phase \in BettingPhases
    /\ \E i \in 1..Len(poker_players) :
          ~poker_players[i].is_folded /\ poker_players'[i].is_folded

\* C22: a fold in a betting phase that leaves one player unfolded ends the hand in
\* that call: the phase is HAND_COMPLETE without passing the showdown, and the whole
\* pot is added to that player's chips and to nobody else's.
C22_FoldToOneEndsHand ==
    [][(FoldMade /\ Cardinality(Unfolded(poker_players')) = 1) =>
          /\ poker_phase' = "HAND_COMPLETE"
          /\ phase_path' = <<"HAND_COMPLETE">>
          /\ \A j \in 1..Len(poker_players) :
                poker_players'[j].chips =
                    poker_players[j].chips + (IF j \in Unfolded(poker_players') THEN pot ELSE 0)
          /\ Len(last_winners') = 1
          /\ last_winners'[1].seat \in Unfolded(poker_players')
          /\ last_winners'[1].amount = pot]_vars

\* A hand ended by folds after a raise: the pot that was won held more than the blinds
C22_Witness ==
    /\ poker_phase = "HAND_COMPLETE"
    /\ phase_path = <<"HAND_COMPLETE">>
    /\ Cardinality(Unfolded(poker_players)) = 1
    /\ Len(last_winners) = 1
    /\ last_winners[1].amount > small_blind + big_blind

ShowdownRan == \E i \in 1..Len(phase_path') : phase_path'[i] = "SHOWDOWN"

\* What seat j holds after a showdown that paid pot P to the k winners, the first of
\* them in evaluation order being `first`: what it had left after its bets of the hand,
\* and its share
ChipsAfterShowdown(j, winners, first, P) ==
    hand_start_chips'[j] - poker_players'[j].total_bet_this_round
    + (IF j \in winners THEN P \div Cardinality(winners) ELSE 0)
    + (IF j = first THEN P % Cardinality(winners) ELSE 0)

\* C24: a showdown with k players ranked first and pot P pays each of them P div k,
\* the first of them P mod k more and nobody else anything, and leaves the phase
\* HAND_COMPLETE.
C24_ShowdownSplit ==
    [][ShowdownRan =>
          LET winners == {last_winners'[r].seat : r \in 1..Len(last_winners')}
          IN /\ poker_phase' = "HAND_COMPLETE"
             /\ winners # {}
             /\ Cardinality(winners) = Len(last_winners')
             /\ winners \subseteq Unfolded(poker_players')
             /\ \A r \in 1..Len(last_winners') : last_winners'[1].seat <= last_winners'[r].seat
             /\ \A j \in 1..Len(poker_players') :
                   poker_players'[j].chips =
                       ChipsAfterShowdown(j, winners, last_winners'[1].seat, pot')]_vars

\* Two players split an odd pot at a showdown: the first is paid one chip more
C24_Witness ==
    /\ poker_phase = "HAND_COMPLETE"
    /\ \E i \in 1..Len(phase_path) : phase_path[i] = "SHOWDOWN"
    /\ Len(last_winners) = 2
    /\ last_winners[1].amount = last_winners[2].amount + 1
    /\ Cardinality(Unfolded(poker_players)) = 3

(***************************************************************************)
(* game_engine.py: LastCardGame.  `g` is the game object; an operation     *)
(* gives the game after it together with what it returned.                 *)
(***************************************************************************)
SPECIAL_CARDS == {"A", "2", "8", "J", "Joker"}

CARDS_PER_PLAYER == 5

MAX_PLAYERS == 8

\* Seats taken at one table.
MaxGamePlayers == 2

\* Cards left in the deck once the hands and the first card are dealt.
SpareCards == 2

\* Outcomes of one random.shuffle.
MaxGameShuffles == 2

\* Calls that change the game.
MaxGameSteps == 7

\* Rounds started at one table.
MaxRounds == 2

\* Cards played together in one play_cards call.
MaxPlayTogether == 2

GameCards ==
    Hand(<< <<"J", "spades">>, <<"2", "diamonds">>, <<"J", "hearts">>, <<"8", "diamonds">>,
            <<"J", "diamonds">>, <<"K", "hearts">>, <<"J", "clubs">>, <<"A", "clubs">>,
            <<"Q", "spades">>, <<"K", "spades">>, <<"5", "spades">>, <<"5", "hearts">>,
            <<"9", "diamonds">>, <<"9", "spades">>, <<"Q", "diamonds">>, <<"3", "clubs">>,
            <<"3", "spades">>, <<"6", "hearts">>, <<"10", "diamonds">>, <<"4", "clubs">>,
            <<"4", "hearts">>, <<"6", "clubs">>, <<"10", "spades">>, <<"7", "hearts">> >>)

\* Deck.reset: the cards of a fresh deck, here the first cards of GameCards, enough
\* for every seat's hand, the first card and the spare cards
GameDeck ==
    SubSeq(GameCards, 1, MaxGamePlayers * CARDS_PER_PLAYER + 1 + SpareCards)

\* Deck.shuffle: outcome number k of random.shuffle(cards), a cut of the cards
shuffle(cards, k) ==
    LET n == Len(cards)
        by == IF n = 0 THEN 0 ELSE (k * (n \div MaxGameShuffles)) % n
    IN [i \in 1..n |-> cards[((i - 1 + by) % n) + 1]]

ShuffleChoices == 0..(MaxGameShuffles - 1)

\* Player(name), with the hand of cards and the last_card_called attribute that the
\* engine attaches
GamePlayer(name) == [name |-> name, hand |-> <<>>, last_card_called |-> "unset"]

\* LastCardGame.__init__ with the deck shuffled as Deck.__init__ leaves it
NewGame(k) ==
    [players |-> <<>>, deck |-> shuffle(GameDeck, k), discard_pile |-> <<>>,
     phase |-> "waiting", current_player_index |-> 0, direction |-> 1,
     pending_draw |-> 0, current_suit |-> "None", winner |-> "None",
     action_log |-> <<>>, round_number |-> 0, last_played_by |-> "None",
     free_throw_active |-> FALSE]

\* What an operation gives back: the game after it and the returned (success, message)
Returns(g, ok, message) == [g |-> g, ok |-> ok, message |-> message]

\* A log entry is <<player name or "", text>>.
_log_action(g, message) ==
    IF Len(g.action_log) + 1 > 20
    THEN [g EXCEPT !.action_log = SubSeq(Append(@, message), Len(@) - 18, Len(@) + 1)]
    ELSE [g EXCEPT !.action_log = Append(@, message)]

\* The seat (from 1) of the current player, 0 for None
get_current_player(g) ==
    IF g.players = <<>> THEN 0 ELSE g.current_player_index + 1

\* The seat (from 1) of the first player of that name, 0 for None
_get_player_by_name(g, name) ==
    IF \E j \in 1..Len(g.players) : g.players[j].name = name
    THEN Min({j \in 1..Len(g.players) : g.players[j].name = name})
    ELSE 0

\* "if not current or current.name != player_name"
not_current(g, player_name) ==
    \/ get_current_player(g) = 0
    \/ g.players[get_current_player(g)].name # player_name

is_valid_play(g, card) ==
    IF card.rank = "Joker" THEN TRUE
    ELSE IF card.rank = "A" THEN TRUE
    ELSE IF card.rank = "J" THEN TRUE
    ELSE IF g.pending_draw > 0 THEN card.rank = "2"
    ELSE IF g.discard_pile = <<>> THEN TRUE
    ELSE \/ card.rank = g.discard_pile[Len(g.discard_pile)].rank
         \/ card.suit = g.current_suit

get_playable_cards(g, seat) ==
    {i \in 0..(Len(g.players[seat].hand) - 1) : is_valid_play(g, g.players[seat].hand[i + 1])}

_reshuffle_discard(g, k) ==
    IF Len(g.discard_pile) <= 1 THEN g
    ELSE _log_action(
            [g EXCEPT !.deck = shuffle(SubSeq(g.discard_pile, 1, Len(g.discard_pile) - 1), k),
                      !.discard_pile = <<g.discard_pile[Len(g.discard_pile)]>>],
            <<"", "Deck reshuffled from discard pile">>)

\* "if len(self.deck.cards) > 0: card = self.deck.deal_one(); player.receive_cards([card])"
deal_to(g, seat) ==
    IF Len(g.deck) > 0
    THEN [g EXCEPT !.deck = Tail(@), !.players[seat].hand = Append(@, Head(g.deck))]
    ELSE g

\* "if len(self.deck.cards) == 0: self._reshuffle_discard()"
refill(g, k) == IF Len(g.deck) = 0 THEN _reshuffle_discard(g, k) ELSE g

RECURSIVE _draw_cards(_, _, _, _)
_draw_cards(g, seat, count, k) ==
    IF count <= 0 THEN g
    ELSE _draw_cards(deal_to(refill(g, k), seat), seat, count - 1, k)

valid_suit(suit_override) == suit_override \in Range(SUITS)

_apply_special_effects(g, card, suit_override) ==
    IF card.rank = "Joker"
    THEN _log_action(
            [(IF valid_suit(suit_override)
              THEN _log_action([g EXCEPT !.current_suit = suit_override], <<"", "Joker! Suit changed">>)
              ELSE [g EXCEPT !.current_suit = "hearts"])
             EXCEPT !.pending_draw = @ + 6],
            <<"", "Next player must draw">>)
    ELSE IF card.rank = "A"
    THEN IF valid_suit(suit_override)
         THEN _log_action([g EXCEPT !.current_suit = suit_override], <<"", "Ace! Suit changed">>)
         ELSE [g EXCEPT !.current_suit = card.suit]
    ELSE IF card.rank = "2"
    THEN [_log_action([g EXCEPT !.pending_draw = @ + 2], <<"", "Next player must draw or play a 2">>)
          EXCEPT !.current_suit = card.suit]
    ELSE IF card.rank = "7" \/ card.rank = "8"
    THEN _log_action([g EXCEPT !.current_suit = card.suit, !.direction = @ * (-1)],
                     <<"", "Direction reversed">>)
    ELSE [g EXCEPT !.current_suit = card.suit]

\* Mutant of _advance_to_next_player: the turn stays where it is.
_advance_to_next_player_stays(g) ==
    _log_action(g, <<g.players[g.current_player_index + 1].name, "'s turn">>)

_advance_to_next_player(g) ==
    _log_action(
        [g EXCEPT !.current_player_index = (@ + g.direction) % Len(g.players)],
        <<g.players[((g.current_player_index + g.direction) % Len(g.players)) + 1].name,
          "'s turn">>)

\* Mutant of declare_winner: the game is over and no winner is recorded.
declare_winner_unnamed(g, player_name) ==
    _log_action([g EXCEPT !.phase = "game_over"], <<player_name, "wins!">>)

\* "self.winner = player_name; self.phase = GamePhase.GAME_OVER" and the log entry
declare_winner(g, player_name) ==
    _log_action([g EXCEPT !.winner = player_name, !.phase = "game_over"],
                <<player_name, "wins!">>)

\* play_card from "player.hand.pop(card_index)" on: the play is accepted
play_card_accepted(g, player_name, seat, card_index, suit_override, k) ==
    LET card == g.players[seat].hand[card_index + 1]
        hand == g.players[seat].hand
        popped == [g EXCEPT !.players[seat].hand =
                                SubSeq(hand, 1, card_index) \o SubSeq(hand, card_index + 2, Len(hand)),
                            !.discard_pile = Append(@, card),
                            !.last_played_by = player_name]
        penalised ==
            IF Len(popped.players[seat].hand) = 1 /\ ~popped.players[seat].last_card_called
            THEN [_log_action(_draw_cards(popped, seat, 1, k),
                              <<player_name, "forgot to call Last Card! Drew 1 penalty card.">>)
                  EXCEPT !.players[seat].last_card_called = FALSE]
            ELSE popped
        reset == IF Len(penalised.players[seat].hand) > 1
                 THEN [penalised EXCEPT !.players[seat].last_card_called = FALSE]
                 ELSE penalised
        logged == _log_action(reset, <<player_name, "played">>)
    IN IF Len(logged.players[seat].hand) = 0
       THEN Returns(declare_winner(logged, player_name), TRUE, "wins!")
       ELSE IF card.rank = "J"
       THEN Returns(_log_action([_apply_special_effects(logged, card, suit_override)
                                 EXCEPT !.free_throw_active = TRUE],
                                <<player_name, "gets a free throw!">>),
                    TRUE, "Played - Free throw!")
       ELSE Returns(_advance_to_next_player(
                        [_apply_special_effects(logged, card, suit_override)
                         EXCEPT !.free_throw_active = FALSE]),
                    TRUE, "Played")

play_card(g, player_name, card_index, suit_override, k) ==
    LET seat == _get_player_by_name(g, player_name)
    IN IF seat = 0 THEN Returns(g, FALSE, "Player not found")
       ELSE IF not_current(g, player_name) THEN Returns(g, FALSE, "Not your turn")
       ELSE IF card_index < 0 \/ card_index >= Len(g.players[seat].hand)
       THEN Returns(g, FALSE, "Invalid card index")
       ELSE IF ~is_valid_play(g, g.players[seat].hand[card_index + 1])
       THEN Returns(g, FALSE, "Cannot play")
       ELSE IF /\ Len(g.players[seat].hand) = 1
               /\ g.players[seat].hand[card_index + 1].rank \in SPECIAL_CARDS
       THEN Returns(g, FALSE, "Cannot use as your last card!")
       ELSE play_card_accepted(g, player_name, seat, card_index, suit_override, k)

\* "for idx in sorted_indices: player.hand.pop(idx)": the hand after the pops, and
\* whether a pop found its index out of range
RECURSIVE pop_each(_, _, _)
pop_each(hand, sorted_indices, n) ==
    IF n > Len(sorted_indices) THEN [hand |-> hand, raised |-> FALSE]
    ELSE IF sorted_indices[n] >= Len(hand) THEN [hand |-> hand, raised |-> TRUE]
    ELSE pop_each(SubSeq(hand, 1, sorted_indices[n])
                      \o SubSeq(hand, sorted_indices[n] + 2, Len(hand)),
                  sorted_indices, n + 1)

\* "for i, card in enumerate(cards_to_play): self._apply_special_effects(card, override)"
RECURSIVE apply_each(_, _, _, _)
apply_each(g, cards_to_play, suit_override, i) ==
    IF i > Len(cards_to_play) THEN g
    ELSE apply_each(_apply_special_effects(g, cards_to_play[i],
                                           IF i = Len(cards_to_play) THEN suit_override
                                           ELSE "None"),
                    cards_to_play, suit_override, i + 1)

\* play_cards from the Last Card penalty on: the play is accepted
play_cards_accepted(g, player_name, seat, card_indices, suit_override, k) ==
    LET hand == g.players[seat].hand
        cards_to_play == [i \in 1..Len(card_indices) |-> hand[card_indices[i] + 1]]
        first_rank == cards_to_play[1].rank
        remaining_after == Len(hand) - Len(card_indices)
        needs_last_card_call == \/ remaining_after = 1
                                \/ remaining_after = 0 /\ Len(hand) \in {2, 3}
        penalised ==
            IF needs_last_card_call /\ ~g.players[seat].last_card_called
            THEN [_log_action(_draw_cards(g, seat, 1, k),
                              <<player_name, "forgot to call Last Card! Drew 1 penalty card.">>)
                  EXCEPT !.players[seat].last_card_called = FALSE]
            ELSE g
        pops == pop_each(penalised.players[seat].hand, SortedDesc(card_indices), 1)
        played == _log_action(
                      [penalised EXCEPT !.players[seat].hand = pops.hand,
                                        !.discard_pile = @ \o cards_to_play,
                                        !.last_played_by = player_name],
                      <<player_name, "played together">>)
        reset == IF Len(played.players[seat].hand) > 1
                 THEN [played EXCEPT !.players[seat].last_card_called = FALSE]
                 ELSE played
    IN IF pops.raised
       THEN Returns([penalised EXCEPT !.players[seat].hand = pops.hand], FALSE, "IndexError")
       ELSE IF Len(reset.players[seat].hand) = 0
       THEN Returns(declare_winner(reset, player_name), TRUE, "wins!")
       ELSE IF first_rank = "J"
       THEN Returns(_log_action([apply_each(reset, cards_to_play, suit_override, 1)
                                 EXCEPT !.free_throw_active = TRUE],
                                <<player_name, "gets a free throw!">>),
                    TRUE, "Played - Free throw!")
       ELSE Returns(_advance_to_next_player(
                        [apply_each(reset, cards_to_play, suit_override, 1)
                         EXCEPT !.free_throw_active = FALSE]),
                    TRUE, "Played")

play_cards(g, player_name, card_indices, suit_override, k) ==
    LET seat == _get_player_by_name(g, player_name)
    IN IF card_indices = <<>> THEN Returns(g, FALSE, "No cards selected")
       ELSE IF Len(card_indices) = 1
       THEN play_card(g, player_name, card_indices[1], suit_override, k)
       ELSE IF seat = 0 THEN Returns(g, FALSE, "Player not found")
       ELSE IF not_current(g, player_name) THEN Returns(g, FALSE, "Not your turn")
       ELSE IF \E i \in 1..Len(card_indices) :
                 card_indices[i] < 0 \/ card_indices[i] >= Len(g.players[seat].hand)
       THEN Returns(g, FALSE, "Invalid card index")
       ELSE IF \E i \in 1..Len(card_indices) :
                 g.players[seat].hand[card_indices[i] + 1].rank
                     # g.players[seat].hand[card_indices[1] + 1].rank
       THEN Returns(g, FALSE, "All cards must be the same rank to play together")
       ELSE IF ~is_valid_play(g, g.players[seat].hand[card_indices[1] + 1])
       THEN Returns(g, FALSE, "Cannot play")
       ELSE IF /\ Len(g.players[seat].hand) - Len(card_indices) = 0
               /\ g.players[seat].hand[card_indices[1] + 1].rank \in SPECIAL_CARDS
       THEN Returns(g, FALSE, "Cannot use as your last card!")
       ELSE play_cards_accepted(g, player_name, seat, card_indices, suit_override, k)

\* Mutant of draw_card_accepted: one card is drawn whatever is pending.
draw_card_accepted_one_card(g, player_name, seat, k) ==
    Returns(_advance_to_next_player(
                [_log_action(_draw_cards(g, seat, 1, k), <<player_name, "drew a card">>)
                 EXCEPT !.players[seat].last_card_called = FALSE, !.pending_draw = 0]),
            TRUE, "Drew card(s)")

\* draw_card once the player is known to be the current one
draw_card_accepted(g, player_name, seat, k) ==
    LET drawn == _draw_cards(g, seat, IF g.pending_draw > 0 THEN g.pending_draw ELSE 1, k)
        logged == IF g.pending_draw > 0
                  THEN [_log_action(drawn, <<player_name, "drew cards (from 2s/Joker)">>)
                        EXCEPT !.pending_draw = 0]
                  ELSE _log_action(drawn, <<player_name, "drew a card">>)
    IN Returns(_advance_to_next_player(
                   [logged EXCEPT !.players[seat].last_card_called = FALSE]),
               TRUE, "Drew card(s)")

draw_card(g, player_name, k) ==
    LET seat == _get_player_by_name(g, player_name)
    IN IF seat = 0 THEN Returns(g, FALSE, "Player not found")
       ELSE IF not_current(g, player_name) THEN Returns(g, FALSE, "Not your turn")
       ELSE draw_card_accepted(g, player_name, seat, k)

\* Mutant of call_last_card: the call is accepted with any hand of two cards or more.
call_last_card_any_hand(g, player_name) ==
    LET seat == _get_player_by_name(g, player_name)
    IN IF seat = 0 THEN Returns(g, FALSE, "Player not found")
       ELSE IF Len(g.players[seat].hand) < 2
       THEN Returns(g, FALSE, "Too late to call Last Card")
       ELSE Returns(_log_action([g EXCEPT !.players[seat].last_card_called = TRUE],
                                <<player_name, "called Last Card!">>),
                    TRUE, "Last Card called!")

call_last_card(g, player_name) ==
    LET seat == _get_player_by_name(g, player_name)
    IN IF seat = 0 THEN Returns(g, FALSE, "Player not found")
       ELSE IF Len(g.players[seat].hand) > 3
       THEN Returns(g, FALSE, "Can only call Last Card when you have 2-3 cards")
       ELSE IF Len(g.players[seat].hand) < 2
       THEN Returns(g, FALSE, "Too late to call Last Card")
       ELSE IF g.players[seat].last_card_called
       THEN Returns(g, FALSE, "Already called Last Card")
       ELSE Returns(_log_action([g EXCEPT !.players[seat].last_card_called = TRUE],
                                <<player_name, "called Last Card!">>),
                    TRUE, "Last Card called!")

get_valid_actions(g, player_name) ==
    LET seat == _get_player_by_name(g, player_name)
    IN IF seat = 0 THEN {}
       ELSE IF not_current(g, player_name) THEN {}
       ELSE {"draw_card"}
            \cup (IF get_playable_cards(g, seat) # {} THEN {"play_card"} ELSE {})
            \cup (IF /\ Len(g.players[seat].hand) \in {2, 3}
                      /\ ~g.players[seat].last_card_called
                   THEN {"call_last_card"} ELSE {})

\* Mutant of player_data: every player's hand is put in the snapshot.
player_data_open(g, j, for_player) ==
    [name |-> g.players[j].name,
     card_count |-> Len(g.players[j].hand),
     seat_position |-> j - 1,
     last_card_called |-> g.players[j].last_card_called,
     hand |-> g.players[j].hand]

\* get_game_state, the entry of players_data for seat j: "# Only show hand to the
\* requesting player"
player_data(g, j, for_player) ==
    [name |-> g.players[j].name,
     card_count |-> Len(g.players[j].hand),
     seat_position |-> j - 1,
     last_card_called |-> g.players[j].last_card_called,
     hand |-> IF for_player # "None" /\ g.players[j].name = for_player
              THEN g.players[j].hand ELSE <<>>]

\* get_game_state, "'action_log': self.action_log[-10:]"
last_ten(log) == SubSeq(log, Max({1, Len(log) - 9}), Len(log))

\* get_game_state once every player is known to have the last_card_called attribute
game_state(g, for_player, seat) ==
    [phase |-> g.phase,
     discard_pile_top |-> IF g.discard_pile = <<>> THEN <<>>
                          ELSE <<g.discard_pile[Len(g.discard_pile)]>>,
     current_suit |-> g.current_suit,
     draw_pile_count |-> Len(g.deck),
     direction |-> g.direction,
     pending_draw |-> g.pending_draw,
     free_throw_active |-> g.free_throw_active,
     current_player |-> IF get_current_player(g) = 0 THEN "None"
                        ELSE g.players[get_current_player(g)].name,
     players |-> [j \in 1..Len(g.players) |-> player_data(g, j, for_player)],
     winner |-> g.winner,
     action_log |-> last_ten(g.action_log),
     round_number |-> g.round_number,
     valid_actions |-> IF for_player # "None" THEN get_valid_actions(g, for_player) ELSE {},
     playable_cards |-> IF for_player # "None" /\ seat # 0
                        THEN get_playable_cards(g, seat) ELSE {}]

\* The attribute has never been assigned: it is neither True nor False
unassigned(attribute) == ToString(attribute) \notin {"TRUE", "FALSE"}

\* LastCardGame.get_game_state(for_player), "None" for no viewer. A player gets the
\* last_card_called attribute in start_game or draw_card; reading it earlier raises
\* AttributeError.
get_game_state(g, for_player) ==
    IF \E j \in 1..Len(g.players) : unassigned(g.players[j].last_card_called)
    THEN [raised |-> "AttributeError"]
    ELSE game_state(g, for_player, _get_player_by_name(g, for_player))

add_player(g, name) ==
    IF Len(g.players) >= MAX_PLAYERS THEN Returns(g, FALSE, "")
    ELSE IF g.phase # "waiting" THEN Returns(g, FALSE, "")
    ELSE Returns([g EXCEPT !.players = Append(@, GamePlayer(name))], TRUE, "")

\* Mutant of start_game_from: the hands are not cleared before the deal.
start_game_from_uncleared(g, fresh) ==
    LET n == Len(g.players)
    IN [g EXCEPT !.phase = "playing",
                 !.round_number = @ + 1,
                 !.winner = "None",
                 !.pending_draw = 0,
                 !.direction = 1,
                 !.current_suit = "None",
                 !.action_log = <<>>,
                 !.free_throw_active = FALSE,
                 !.deck = SubSeq(fresh, CARDS_PER_PLAYER * n + 1, Len(fresh)),
                 !.discard_pile = <<>>,
                 !.players = [j \in 1..n |->
                                 [name |-> g.players[j].name,
                                  hand |-> g.players[j].hand
                                           \o [r \in 1..CARDS_PER_PLAYER |-> fresh[(r - 1) * n + j]],
                                  last_card_called |-> FALSE]]]

\* start_game from "self.phase = GamePhase.PLAYING" to the deal: `fresh` is the deck
\* after self.deck.reset() and self.deck.shuffle()
start_game_from(g, fresh) ==
    LET n == Len(g.players)
    IN [g EXCEPT !.phase = "playing",
                 !.round_number = @ + 1,
                 !.winner = "None",
                 !.pending_draw = 0,
                 !.direction = 1,
                 !.current_suit = "None",
                 !.action_log = <<>>,
                 !.free_throw_active = FALSE,
                 !.deck = SubSeq(fresh, CARDS_PER_PLAYER * n + 1, Len(fresh)),
                 !.discard_pile = <<>>,
                 !.players = [j \in 1..n |->
                                 [name |-> g.players[j].name,
                                  hand |-> [r \in 1..CARDS_PER_PLAYER |-> fresh[(r - 1) * n + j]],
                                  last_card_called |-> FALSE]]]

\* start_game down to the deal: the fields reset, the deck reset and shuffled (k1 by
\* Deck.reset, k2 by start_game), the hands cleared and dealt one card at a time
start_game_dealt(g, k1, k2) == start_game_from(g, shuffle(shuffle(GameDeck, k1), k2))

\* "while first_card and (first_card.rank == '8' or first_card.rank == 'Joker')": the
\* card goes back and the deck is shuffled (outcome k3) until another rank is on top
first_card_deck(deck, k3) ==
    IF deck[1].rank = "8" \/ deck[1].rank = "Joker" THEN shuffle(deck, k3) ELSE deck

start_game_flipped(g, deck, start) ==
    _log_action(
        _log_action(
            [g EXCEPT !.deck = Tail(deck),
                      !.discard_pile = <<deck[1]>>,
                      !.current_suit = deck[1].suit,
                      !.current_player_index = start],
            <<"", "Game started!">>),
        <<g.players[start + 1].name, "'s turn">>)

\* Mutant of start_game: one seated player is enough to start.
start_game_alone(g, k1, k2, k3, start) ==
    IF Len(g.players) < 1 THEN Returns(g, FALSE, "")
    ELSE Returns(start_game_flipped(start_game_dealt(g, k1, k2),
                                    first_card_deck(start_game_dealt(g, k1, k2).deck, k3),
                                    start),
                 TRUE, "")

start_game(g, k1, k2, k3, start) ==
    IF Len(g.players) < 2 THEN Returns(g, FALSE, "")
    ELSE Returns(start_game_flipped(start_game_dealt(g, k1, k2),
                                    first_card_deck(start_game_dealt(g, k1, k2).deck, k3),
                                    start),
                 TRUE, "")

new_round(g, k1, k2, k3, start) ==
    IF g.phase # "game_over" THEN Returns(g, FALSE, "")
    ELSE start_game(g, k1, k2, k3, start)

(***************************************************************************)
(* One table of Last Card: the calls made to the engine.                   *)
(***************************************************************************)
\* Names under which calls are made: the seats' names and a name nobody has
CallerNames == {PlayerNames[j] : j \in 1..MaxGamePlayers} \cup {"nobody"}

SuitOverrides == {"None", "clubs"}

\* The shuffle outcomes and the first player that matter to a start: one when the
\* start is refused
StartsFor(g, refused) ==
    IF refused THEN {<<0, 0, 0, 0>>}
    ELSE {c \in ShuffleChoices \X ShuffleChoices \X ShuffleChoices \X (0..(Len(g.players) - 1)) :
            first_card_deck(start_game_dealt(g, c[1], c[2]).deck, c[3])[1].rank
                \notin {"8", "Joker"}}

\* The card indices a caller may pass: from -1 to one past the end of the hand (one
\* index for a caller who is turned away before the index is looked at)
IndicesFor(g, name) ==
    IF _get_player_by_name(g, name) = 0 \/ not_current(g, name) THEN {0}
    ELSE -1..Len(g.players[_get_player_by_name(g, name)].hand)

\* The lists of indices a caller may pass: up to MaxPlayTogether indices, of which
\* index 0 only may come twice
IndexLists(g, name) ==
    {l \in UNION {[1..len -> IndicesFor(g, name)] : len \in 0..MaxPlayTogether} :
        \A i, j \in 1..Len(l) : (i # j /\ l[i] = l[j]) => l[i] = 0}

\* The shuffle outcomes that matter to a call that draws `count` cards: one when the
\* deck holds them all
ShufflesFor(g, count) == IF Len(g.deck) < count THEN ShuffleChoices ELSE {0}

\* The suit choices that matter to a play under that name: one when the hand holds
\* neither an Ace nor a Joker
OverridesFor(g, name) ==
    IF /\ _get_player_by_name(g, name) # 0
       /\ \E c \in Range(g.players[_get_player_by_name(g, name)].hand) :
              c.rank \in {"A", "Joker"}
    THEN SuitOverrides ELSE {"None"}

GameInit ==
    /\ \E k \in ShuffleChoices : game = NewGame(k)
    /\ game_out = NoGameCall
    /\ game_steps = 0

\* A call that left the game as it was is followed by the calls that may follow the
\* state before it, with the same results: they are taken from there, and the next
\* call is taken after a call that changed the game.
Ready == game_out.op = "none" \/ game_out.changed

\* The call made, what it returned and the game it left
Called(op, name, r) ==
    /\ Ready
    /\ game' = r.g
    /\ game_out' = [op |-> op, name |-> name, ok |-> r.ok, message |-> r.message,
                    changed |-> r.g # game]
    /\ game_steps' = IF r.g = game THEN game_steps ELSE game_steps + 1
    /\ UNCHANGED notGameVars

AddPlayer ==
    /\ game_steps < MaxGameSteps
    /\ Len(game.players) < MaxGamePlayers
    /\ Called("add_player", PlayerNames[Len(game.players) + 1],
              add_player(game, PlayerNames[Len(game.players) + 1]))

StartGame ==
    /\ game_steps < MaxGameSteps
    /\ game.phase = "waiting"
    /\ \E c \in StartsFor(game, Len(game.players) < 2) :
          Called("start_game", "None", start_game(game, c[1], c[2], c[3], c[4]))

NewRound ==
    /\ game.round_number < MaxRounds
    /\ game.phase # "waiting"
    /\ \E c \in StartsFor(game, game.phase # "game_over") :
          Called("new_round", "None", new_round(game, c[1], c[2], c[3], c[4]))

PlayCard ==
    /\ game_steps < MaxGameSteps
    /\ \E name \in CallerNames, k \in ShufflesFor(game, 1) :
          \E card_index \in IndicesFor(game, name), suit_override \in OverridesFor(game, name) :
              Called("play_card", name, play_card(game, name, card_index, suit_override, k))

PlayCards ==
    /\ game_steps < MaxGameSteps
    /\ \E name \in CallerNames, k \in ShufflesFor(game, 1) :
          \E card_indices \in IndexLists(game, name), suit_override \in OverridesFor(game, name) :
              Called("play_cards", name,
                     play_cards(game, name, card_indices, suit_override, k))

DrawCard ==
    /\ game_steps < MaxGameSteps
    /\ \E name \in CallerNames,
          k \in ShufflesFor(game, IF game.pending_draw > 0 THEN game.pending_draw ELSE 1) :
          Called("draw_card", name, draw_card(game, name, k))

CallLastCard ==
    /\ game_steps < MaxGameSteps
    /\ \E name \in CallerNames :
          Called("call_last_card", name, call_last_card(game, name))

Next ==
    \/ AddPlayer
    \/ StartGame
    \/ NewRound
    \/ PlayCard
    \/ PlayCards
    \/ DrawCard
    \/ CallLastCard

\* One table of Last Card, nothing else in use
Init == GameInit /\ EvalIdle /\ ProbIdle /\ PokerIdle /\ DeckIdle /\ PlayerIdle /\ AppIdle

Spec == Init /\ [][Next]_vars

(***************************************************************************)
(* Properties of the Last Card engine.                                     *)
(***************************************************************************)
PlayerActions == {"play_card", "play_cards", "draw_card", "call_last_card"}

\* The name is that of a seated player who is not the current player
OutOfTurn(g, name) == _get_player_by_name(g, name) # 0 /\ not_current(g, name)

\* C3: a play_card, play_cards, draw_card or call_last_card call under the name of a
\* seated player who is not the current player returns a failure and leaves the game
\* as it was.
C3_OutOfTurnRejected ==
    [][(game_out'.op \in PlayerActions /\ OutOfTurn(game, game_out'.name))
          => (~game_out'.ok /\ game' = game)]_vars

RECURSIVE HandsFrom(_, _)
HandsFrom(ps, j) == IF j > Len(ps) THEN <<>> ELSE ps[j].hand \o HandsFrom(ps, j + 1)

\* Every card in the deck, in a hand or on the pile, one entry for each place it is in
CardsInGame(g) == g.deck \o g.discard_pile \o HandsFrom(g.players, 1)

\* C4: once a round has been started, the deck, the hands and the pile together hold
\* each card of the fresh deck exactly once.
C4_CardConservation ==
    game.round_number >= 1 =>
        /\ Len(CardsInGame(game)) = Len(GameDeck)
        /\ Range(CardsInGame(game)) = Range(GameDeck)

Viewers == CallerNames \cup {"None"}

\* Cards that are in no deck of the table
CardsElsewhere == SubSeq(GameCards, Len(GameDeck) + 1, Len(GameCards))

\* Another hand of as many cards
OtherHand(hand) ==
    IF Len(hand) <= Len(CardsElsewhere) THEN SubSeq(CardsElsewhere, 1, Len(hand))
    ELSE Reverse(hand)

\* The game with the hands of everybody but the viewer replaced, card counts kept
OthersDealtAnew(g, viewer) ==
    [g EXCEPT !.players = [j \in 1..Len(g.players) |->
                              IF g.players[j].name = viewer THEN g.players[j]
                              ELSE [g.players[j] EXCEPT !.hand = OtherHand(@)]]]

\* C19: the snapshot get_game_state gives a viewer holds the hand of no other player,
\* and none at all when no viewer is named: it is the same snapshot when the other
\* players hold other cards, as many as before.
C19_OthersCardsHidden ==
    \A viewer \in Viewers :
        /\ get_game_state(OthersDealtAnew(game, viewer), viewer) = get_game_state(game, viewer)
        /\ "players" \in DOMAIN get_game_state(game, viewer) =>
              \A j \in 1..Len(game.players) :
                  game.players[j].name # viewer =>
                      get_game_state(game, viewer).players[j].hand = <<>>

\* The first player sees their own five cards while the second holds five others
C19_Witness ==
    /\ game.phase = "playing"
    /\ Len(game.players) = 2
    /\ get_game_state(game, "p1").players[1].hand = game.players[1].hand
    /\ Len(game.players[1].hand) = CARDS_PER_PLAYER
    /\ Len(game.players[2].hand) = CARDS_PER_PLAYER
    /\ OthersDealtAnew(game, "p1") # game

\* A play that the engine turns away with a failure result (none of its pops raised)
\* leaves the game as it was
ReturnedFailureUnchanged ==
    [][(/\ game_out'.op \in {"play_card", "play_cards"}
        /\ ~game_out'.ok
        /\ game_out'.message # "IndexError") => game' = game]_vars

\* C28: a play_card or play_cards call that fails leaves the game as it was: hands,
\* deck, pile, pending draw, active suit, direction, turn, flags and log.
C28_RejectedPlayUnchanged ==
    [][(game_out'.op \in {"play_card", "play_cards"} /\ ~game_out'.ok) => game' = game]_vars

(***************************************************************************)
(* game_engine.py: one long hand, for the action log                       *)
(***************************************************************************)
\* Calls that change the game in one long hand.
MaxLongSteps == 11

LongCalled(op, name, r) ==
    /\ game_steps < MaxLongSteps
    /\ Called(op, name, r)

\* The name of the player whose turn it is in a started hand
TurnHolder == game.players[get_current_player(game)].name

LongAddPlayer ==
    /\ Len(game.players) < MaxGamePlayers
    /\ LongCalled("add_player", PlayerNames[Len(game.players) + 1],
                  add_player(game, PlayerNames[Len(game.players) + 1]))

\* The hand is started once, by a table that is full
LongStartGame ==
    /\ game.phase = "waiting"
    /\ Len(game.players) = MaxGamePlayers
    /\ LongCalled("start_game", "None", start_game(game, 0, 0, 0, 0))

LongPlayCard ==
    /\ game.phase = "playing"
    /\ \E k \in ShufflesFor(game, 1) :
          \E card_index \in IndicesFor(game, TurnHolder) :
              LongCalled("play_card", TurnHolder,
                         play_card(game, TurnHolder, card_index, "None", k))

LongDrawCard ==
    /\ game.phase = "playing"
    /\ \E k \in ShufflesFor(game, IF game.pending_draw > 0 THEN game.pending_draw ELSE 1) :
          LongCalled("draw_card", TurnHolder,
                     draw_card(game, TurnHolder, k))

LongCallLastCard ==
    /\ game.phase = "playing"
    /\ \E name \in CallerNames :
          LongCalled("call_last_card", name, call_last_card(game, name))

LongNext ==
    \/ LongAddPlayer
    \/ LongStartGame
    \/ LongPlayCard
    \/ LongDrawCard
    \/ LongCallLastCard

LongInit ==
    /\ game = NewGame(0)
    /\ game_out = NoGameCall
    /\ game_steps = 0
    /\ EvalIdle /\ ProbIdle /\ PokerIdle /\ DeckIdle /\ PlayerIdle /\ AppIdle

\* One hand of Last Card played by its turn holders, long enough to fill the log
SpecLong == LongInit /\ [][LongNext]_vars

IsPrefix(s, t) == Len(s) <= Len(t) /\ SubSeq(t, 1, Len(s)) = s

\* The call just made was accepted, and the hand is the one played before it
AcceptedInHand ==
    /\ game'.round_number = game.round_number
    /\ game_out'.ok
    /\ game_out'.op \in {"play_card", "play_cards", "draw_card", "call_last_card"}

\* C20: within a hand the action log only grows: an accepted action adds to it, and
\* every entry logged before is still there, in its place and as it was.
C20_LogAppendOnly ==
    [][AcceptedInHand =>
          /\ Len(game'.action_log) > Len(game.action_log)
          /\ IsPrefix(game.action_log, game'.action_log)]_vars

(***************************************************************************)
(* game_engine.py: tables of 2 to 8 players started from the 52-card deck  *)
(***************************************************************************)
\* Calls that change the game once the players are seated at a table of the full deck.
MaxFullSteps == 6

\* Cards the turn holder draws between two starts.
MaxFullDraws == 2

SeatNames == <<"p1", "p2", "p3", "p4", "p5", "p6", "p7", "p8", "p9">>

\* LastCardGame.__init__ with the 52 cards of Deck.reset, shuffled
NewFullGame(k) == [NewGame(0) EXCEPT !.deck = shuffle(FullDeck, k)]

\* start_game when the two shuffles of the deck leave it in the order `fresh`
start_game_shuffled(g, fresh, k3, start) ==
    IF Len(g.players) < 2 THEN Returns(g, FALSE, "")
    ELSE Returns(start_game_flipped(start_game_from(g, fresh),
                                    first_card_deck(start_game_from(g, fresh).deck, k3),
                                    start),
                 TRUE, "")

\* start_game with the deck that Deck.reset builds from SUITS and RANKS
start_game_full(g, k1, k2, k3, start) ==
    start_game_shuffled(g, shuffle(shuffle(FullDeck, k1), k2), k3, start)

\* The shuffle outcomes and the first player of a start from the full deck (the two
\* shuffles of the deck follow each other: the outcomes of the second are enough)
FullStartsFor(g) ==
    IF Len(g.players) < 2 THEN {<<0, 0, 0, 0>>}
    ELSE {c \in {0} \X ShuffleChoices \X ShuffleChoices \X (0..(Len(g.players) - 1)) :
            first_card_deck(start_game_from(g, shuffle(shuffle(FullDeck, c[1]), c[2])).deck,
                            c[3])[1].rank \notin {"8", "Joker"}}

FullCalled(op, name, r) ==
    /\ game_steps < Len(game.players) + MaxFullSteps
    /\ Called(op, name, r)

\* A ninth player is turned away
FullAddPlayer ==
    /\ Len(game.players) <= MAX_PLAYERS
    /\ game.phase = "waiting"
    /\ FullCalled("add_player", SeatNames[Len(game.players) + 1],
                  add_player(game, SeatNames[Len(game.players) + 1]))

\* start_game has no phase check: it is called at a waiting table, during a game and
\* after one
FullStartGame ==
    /\ game.round_number < MaxRounds
    /\ \E c \in FullStartsFor(game) :
          FullCalled("start_game", "None", start_game_full(game, c[1], c[2], c[3], c[4]))

FullDrawCard ==
    /\ game.phase = "playing"
    /\ Len(game.deck) > Len(FullDeck) - CARDS_PER_PLAYER * Len(game.players) - 1 - MaxFullDraws
    /\ FullCalled("draw_card", TurnHolder, draw_card(game, TurnHolder, 0))

\* At a table of two, the turn holder plays one of the cards reported as playable
FullPlayCard ==
    /\ game.phase = "playing"
    /\ game.round_number = 1
    /\ Len(game.players) = 2
    /\ \E card_index \in get_playable_cards(game, get_current_player(game)) :
          FullCalled("play_card", TurnHolder, play_card(game, TurnHolder, card_index, "None", 0))

FullCallLastCard ==
    /\ game.phase = "playing"
    /\ FullCalled("call_last_card", TurnHolder, call_last_card(game, TurnHolder))

FullNext ==
    \/ FullAddPlayer
    \/ FullStartGame
    \/ FullDrawCard
    \/ FullPlayCard
    \/ FullCallLastCard

FullInit ==
    /\ \E k \in ShuffleChoices : game = NewFullGame(k)
    /\ game_out = NoGameCall
    /\ game_steps = 0
    /\ EvalIdle /\ ProbIdle /\ PokerIdle /\ DeckIdle /\ PlayerIdle /\ AppIdle

SpecFull == FullInit /\ [][FullNext]_vars

\* C26: right after a successful start_game with n players, 2 <= n <= 8, every player
\* holds 5 cards and has not called Last Card, the pile holds 1 card, the deck holds
\* the other 52 - 5n - 1, no card is there twice, and the phase is PLAYING.
C26_StartDealsFullDeck ==
    [][(game_out'.op = "start_game" /\ game_out'.ok) =>
          LET n == Len(game'.players)
          IN /\ n \in 2..MAX_PLAYERS
             /\ game'.phase = "playing"
             /\ \A j \in 1..n :
                   /\ Len(game'.players[j].hand) = CARDS_PER_PLAYER
                   /\ game'.players[j].last_card_called = FALSE
             /\ Len(game'.discard_pile) = 1
             /\ Len(game'.deck) = 52 - CARDS_PER_PLAYER * n - 1
             /\ Range(CardsInGame(game')) = Range(FullDeck)
             /\ Cardinality(Range(CardsInGame(game'))) = 52]_vars

\* Eight players are dealt anew after cards were drawn in the game before
C26_Witness ==
    /\ game_out.op = "start_game" /\ game_out.ok
    /\ Len(game.players) = MAX_PLAYERS
    /\ game.round_number = 2
    /\ Len(game.deck) = 11

(***************************************************************************)
(* game_engine.py: a table of two dealt the 2s and the Jacks               *)
(***************************************************************************)
\* Calls that change the game once the two players are seated.
MaxTwosSteps == 6

\* One outcome of the shuffles of start_game: the 2s on top, then the Jacks, then the
\* other cards in the order of Deck.reset
TwosDeck ==
    LET IsTwo(c) == c.rank = "2"
        IsJack(c) == c.rank = "J"
        IsOther(c) == c.rank \notin {"2", "J"}
    IN SelectSeq(FullDeck, IsTwo) \o SelectSeq(FullDeck, IsJack) \o SelectSeq(FullDeck, IsOther)

TwosCalled(op, name, r) ==
    /\ game_steps < 2 + MaxTwosSteps
    /\ Called(op, name, r)

TwosAddPlayer ==
    /\ Len(game.players) < 2
    /\ TwosCalled("add_player", SeatNames[Len(game.players) + 1],
                  add_player(game, SeatNames[Len(game.players) + 1]))

TwosStartGame ==
    /\ game.phase = "waiting"
    /\ Len(game.players) = 2
    /\ \E start \in 0..1 :
          TwosCalled("start_game", "None", start_game_shuffled(game, TwosDeck, 0, start))

\* The turn holder plays the card at any index, the invalid ones included
TwosPlayCard ==
    /\ game.phase = "playing"
    /\ \E card_index \in IndicesFor(game, TurnHolder),
          suit_override \in OverridesFor(game, TurnHolder) :
          TwosCalled("play_card", TurnHolder,
                     play_card(game, TurnHolder, card_index, suit_override, 0))

TwosPlayCards ==
    /\ game.phase = "playing"
    /\ \E card_indices \in IndexLists(game, TurnHolder),
          suit_override \in OverridesFor(game, TurnHolder) :
          TwosCalled("play_cards", TurnHolder,
                     play_cards(game, TurnHolder, card_indices, suit_override, 0))

TwosDrawCard ==
    /\ game.phase = "playing"
    /\ TwosCalled("draw_card", TurnHolder, draw_card(game, TurnHolder, 0))

TwosNext ==
    \/ TwosAddPlayer
    \/ TwosStartGame
    \/ TwosPlayCard
    \/ TwosPlayCards
    \/ TwosDrawCard

TwosInit ==
    /\ \E k \in ShuffleChoices : game = NewFullGame(k)
    /\ game_out = NoGameCall
    /\ game_steps = 0
    /\ EvalIdle /\ ProbIdle /\ PokerIdle /\ DeckIdle /\ PlayerIdle /\ AppIdle

SpecTwos == TwosInit /\ [][TwosNext]_vars

\* The top of the discard pile
TopCard(g) == g.discard_pile[Len(g.discard_pile)]

\* A play is accepted while cards are to be drawn
PlayedOnPending ==
    /\ game.phase = "playing"
    /\ game.pending_draw > 0
    /\ game_out'.op \in {"play_card", "play_cards"}
    /\ game_out'.ok

\* The pending draw shrinks by a successful draw_card only, which takes it all
PendingTakenByDraw ==
    (game.phase = "playing" /\ game'.pending_draw < game.pending_draw)
        => (game_out'.op = "draw_card" /\ game_out'.ok /\ game'.pending_draw = 0)

\* C29 as stated: while pending_draw > 0 the only card the current player can
\* successfully play is a 2, which stacks; the pending draw only grows by stacking or
\* is taken by draw_card.
C29_OnlyTwoOnPendingDraw ==
    [][/\ PlayedOnPending =>
              /\ TopCard(game').rank = "2"
              /\ game'.pending_draw > game.pending_draw
       /\ PendingTakenByDraw]_vars

\* What is_valid_play does instead: an Ace, a Jack or a Joker passes before the pending
\* draw is looked at, and an Ace or a Jack leaves the pending draw as it is
PendingDrawPlays ==
    [][/\ PlayedOnPending =>
              /\ TopCard(game').rank \in {"2", "A", "J", "Joker"}
              /\ TopCard(game').rank = "2" => game'.pending_draw > game.pending_draw
              /\ TopCard(game').rank \in {"A", "J"} => game'.pending_draw = game.pending_draw
       /\ PendingTakenByDraw]_vars

\* C30: each 2 played, alone or several at once, adds exactly 2 to pending_draw; a
\* draw_card of the current player with d > 0 cards pending and d cards left in
\* the deck and under the top of the pile grows that hand by d, sets pending_draw
\* to 0 and passes the turn to the next player.
C30_DrawTwoStacking ==
    [][/\ ( /\ game.phase = "playing"
            /\ Len(game.deck) > 0
            /\ game_out'.op \in {"play_card", "play_cards"}
            /\ game_out'.ok
            /\ TopCard(game').rank = "2" )
          => game'.pending_draw = game.pending_draw
                                  + 2 * (Len(game'.discard_pile) - Len(game.discard_pile))
       /\ ( /\ game.phase = "playing"
            /\ game_out'.op = "draw_card"
            /\ game_out'.ok
            /\ game.pending_draw > 0
            /\ Len(game.deck) + Len(game.discard_pile) - 1 >= game.pending_draw )
          => LET seat == get_current_player(game)
             IN /\ Len(game'.players[seat].hand)
                     = Len(game.players[seat].hand) + game.pending_draw
                /\ game'.pending_draw = 0
                /\ game'.current_player_index
                     = (game.current_player_index + game.direction) % Len(game.players)
                /\ get_current_player(game') # seat]_vars

\* Two 2s were played at once and a third stacked on them: the six cards were drawn
C30_Witness ==
    /\ game_out.op = "draw_card" /\ game_out.ok
    /\ game.pending_draw = 0
    /\ Len(game.discard_pile) >= 4
    /\ \E j \in 1..Len(game.players) : Len(game.players[j].hand) >= 9

\* A play of one card under play_card is accepted and the game goes on
SinglePlayed ==
    /\ game.phase = "playing"
    /\ game_out'.op = "play_card"
    /\ game_out'.ok
    /\ game'.phase = "playing"

\* C31: after a successful, non-winning play of a single 8 by the player at seat i of
\* n, the turn passes to the player two seats ahead of i in the play direction: the
\* player one seat ahead is skipped.
C31_EightSkipsNext ==
    [][(SinglePlayed /\ TopCard(game').rank = "8") =>
          /\ game'.direction = game.direction
          /\ game'.current_player_index
               = (game.current_player_index + 2 * game.direction) % Len(game.players)]_vars

\* A play is accepted and leaves cards in the hand of the player who made it
PlayedOn ==
    /\ game.phase = "playing"
    /\ game_out'.op \in {"play_card", "play_cards"}
    /\ game_out'.ok
    /\ Len(game'.players[get_current_player(game)].hand) > 0

PlayedOut ==
    /\ game_out'.op \in {"play_card", "play_cards"}
    /\ game_out'.ok
    /\ _get_player_by_name(game, game_out'.name) # 0
    /\ game'.players[_get_player_by_name(game, game_out'.name)].hand = <<>>

\* C33: whenever a successful play leaves the acting player's hand empty, the phase
\* becomes GAME_OVER and winner is that player's name, with no special effect applied
\* and no turn advance; the phase becomes GAME_OVER only through such a play.
C33_EmptyHandWins ==
    [][/\ PlayedOut =>
              /\ game'.phase = "game_over"
              /\ game'.winner = game_out'.name
              /\ game'.current_player_index = game.current_player_index
              /\ game'.direction = game.direction
              /\ game'.pending_draw = game.pending_draw
              /\ game'.current_suit = game.current_suit
              /\ game'.free_throw_active = game.free_throw_active
       /\ (game.phase # "game_over" /\ game'.phase = "game_over") => PlayedOut]_vars

\* A player went out on a card of another suit than the one in force, which stays
\* in force: the winner holds the turn and no hand
C33_Witness ==
    /\ game_out.op \in {"play_card", "play_cards"} /\ game_out.ok
    /\ game.phase = "game_over"
    /\ game.winner = game_out.name
    /\ game.players[get_current_player(game)].name = game_out.name
    /\ game.players[get_current_player(game)].hand = <<>>
    /\ TopCard(game).suit # game.current_suit

\* The cards a penalty draw can take: the deck, or the pile under its top card, on
\* which play_card has put the card played and play_cards has not yet
PenaltyCardAvailable(g, card_indices) ==
    \/ Len(g.deck) > 0
    \/ Len(g.discard_pile) + (IF Len(card_indices) = 1 THEN 1 ELSE 0) > 1

\* The accepted play just made is one of these cards, which leaves one card of the
\* hand it is made from
PlayedDownToOne(card_indices, suit_override, k) ==
    /\ Len(game.players[_get_player_by_name(game, game_out'.name)].hand)
         - Len(card_indices) = 1
    /\ play_cards(game, game_out'.name, card_indices, suit_override, k).ok
    /\ game' = play_cards(game, game_out'.name, card_indices, suit_override, k).g

\* C34: a play that would leave the player holding exactly 1 card, made without Last
\* Card called, makes the player draw exactly 1 penalty card (2 cards in hand when a
\* card is available); made after call_last_card it draws no penalty; call_last_card
\* succeeds only with 2 or 3 cards in hand and not already called.
C34_LastCardPenalty ==
    [][/\ (game_out'.op \in {"play_card", "play_cards"} /\ game_out'.ok) =>
             \A suit_override \in SuitOverrides, k \in ShuffleChoices :
                \A card_indices \in IndexLists(game, game_out'.name) :
                   PlayedDownToOne(card_indices, suit_override, k) =>
                      LET seat == _get_player_by_name(game, game_out'.name)
                          taken == IF /\ ~game.players[seat].last_card_called
                                      /\ PenaltyCardAvailable(game, card_indices)
                                   THEN 1 ELSE 0
                      IN /\ Len(game'.players[seat].hand) = 1 + taken
                         /\ Len(game'.deck) + Len(game'.discard_pile)
                              = Len(game.deck) + Len(game.discard_pile)
                                + Len(card_indices) - taken
       /\ (game_out'.op = "call_last_card" /\ game_out'.ok) =>
             LET seat == _get_player_by_name(game, game_out'.name)
             IN /\ seat # 0
                /\ Len(game.players[seat].hand) \in {2, 3}
                /\ game.players[seat].last_card_called = FALSE
                /\ game'.players[seat].last_card_called = TRUE]_vars

\* A player played down to one card without calling and holds two cards again, and
\* has now called Last Card
C34_Witness ==
    /\ game_out.op = "call_last_card" /\ game_out.ok
    /\ \E j \in 1..Len(game.action_log) :
          game.action_log[j] = <<game_out.name, "forgot to call Last Card! Drew 1 penalty card.">>
    /\ Len(game.players[_get_player_by_name(game, game_out.name)].hand) = 2

\* One outcome of the shuffles of start_game at a table of two: the first seat is dealt
\* the Jack of spades, 9 of clubs, Jack of hearts, 6 of hearts and 8 of spades, the
\* second seat the 3, 5 and Queen of clubs and the 7 and 10 of diamonds, on the 4 of
\* hearts; the other cards follow in the order of Deck.reset
FinishDeck ==
    LET top == Hand(<< <<"J", "spades">>, <<"3", "clubs">>, <<"9", "clubs">>, <<"5", "clubs">>,
                       <<"J", "hearts">>, <<"7", "diamonds">>, <<"6", "hearts">>,
                       <<"10", "diamonds">>, <<"8", "spades">>, <<"Q", "clubs">>,
                       <<"4", "hearts">> >>)
        IsUnder(c) == c \notin Range(top)
    IN top \o SelectSeq(FullDeck, IsUnder)

FinishStartGame ==
    /\ game.phase = "waiting"
    /\ Len(game.players) = 2
    /\ \E start \in 0..1 :
          TwosCalled("start_game", "None", start_game_shuffled(game, FinishDeck, 0, start))

FinishCallLastCard ==
    /\ game.phase = "playing"
    /\ TwosCalled("call_last_card", TurnHolder, call_last_card(game, TurnHolder))

FinishNext ==
    \/ TwosAddPlayer
    \/ FinishStartGame
    \/ TwosPlayCard
    \/ TwosPlayCards
    \/ TwosDrawCard
    \/ FinishCallLastCard

\* A table of two dealt the hands of FinishDeck
SpecFinish == TwosInit /\ [][FinishNext]_vars

\* C35: no play of rank A, 2, 8, J or Joker empties a player's hand, and no special
\* card leaves a player's hand in the play that makes them the winner: the cards of
\* the hand that an accepted play empties are all of other ranks.
C35_NoSpecialLastCard ==
    [][PlayedOut =>
          \A c \in Range(game.players[_get_player_by_name(game, game_out'.name)].hand) :
              c.rank \notin SPECIAL_CARDS]_vars

\* remove_player: the first player of that name leaves the list, and no other field of
\* the game changes (seat_position, which is renumbered, is not modelled)
remove_player(g, player_name) ==
    LET seat == _get_player_by_name(g, player_name)
    IN IF seat = 0 THEN Returns(g, FALSE, "")
       ELSE Returns([g EXCEPT !.players = SubSeq(@, 1, seat - 1) \o SubSeq(@, seat + 1, Len(@))],
                    TRUE, "")

\* "return self.players[self.current_player_index]" finds a player
TurnHeld == game.current_player_index < Len(game.players)

\* A player of a name that is not at the table sits down
LeaveAddPlayer ==
    /\ Len(game.players) < 2
    /\ \E name \in {SeatNames[1], SeatNames[2]} :
          /\ _get_player_by_name(game, name) = 0
          /\ TwosCalled("add_player", name, add_player(game, name))

\* A seated player is removed, at a waiting table or during the game
LeaveRemovePlayer ==
    /\ game.players # <<>>
    /\ \E j \in 1..Len(game.players) :
          TwosCalled("remove_player", game.players[j].name,
                     remove_player(game, game.players[j].name))

\* The calls of the player whose turn it is. With the index past the end of the list
\* get_current_player raises IndexError before the game is touched.
LeavePlayCard == TurnHeld /\ TwosPlayCard

LeaveDrawCard == TurnHeld /\ TwosDrawCard

LeaveNext ==
    \/ LeaveAddPlayer
    \/ TwosStartGame
    \/ LeaveRemovePlayer
    \/ LeavePlayCard
    \/ LeaveDrawCard

\* A table of two whose players may be removed
SpecLeave == TwosInit /\ [][LeaveNext]_vars

\* C37: after any sequence of add_player, remove_player, start_game and player
\* actions, current_player_index is a valid index into the players list whenever a
\* player is seated, so that get_current_player finds a seated player.
C37_TurnIndexValid ==
    game.players # <<>> => game.current_player_index \in 0..(Len(game.players) - 1)

\* C38: in WAITING and in GAME_OVER every play_card, play_cards and draw_card call
\* leaves hands, deck, pile, turn and winner unchanged.
C38_ActionsOnlyWhilePlaying ==
    [][( /\ game.phase \in {"waiting", "game_over"}
         /\ game_out'.op \in {"play_card", "play_cards", "draw_card"} )
          => /\ game'.players = game.players
             /\ game'.deck = game.deck
             /\ game'.discard_pile = game.discard_pile
             /\ game'.current_player_index = game.current_player_index
             /\ game'.winner = game.winner]_vars

\* C39: for the current player every card index listed by get_playable_cards is
\* accepted by play_card in that same state, and get_valid_actions is empty for every
\* seated player who is not the current player.
C39_ReportAgreesWithEngine ==
    (game.phase = "playing" /\ TurnHeld) =>
        /\ \A card_index \in get_playable_cards(game, get_current_player(game)) :
              \A suit_override \in SuitOverrides, k \in ShuffleChoices :
                  play_card(game, TurnHolder, card_index, suit_override, k).ok
        /\ \A j \in 1..Len(game.players) :
              game.players[j].name # TurnHolder
                  => get_valid_actions(game, game.players[j].name) = {}

(***************************************************************************)
(* card.py: Deck                                                           *)
(***************************************************************************)
\* Calls made to one deck.
MaxDeckCalls == 4

\* The num arguments of deal that are tried.
DealSizes == {-1, 0, 1, 2, 5, 25, 53}

\* cards[:num] and cards[num:] as Python slices them; a negative num counts from the end
slice_to(cards, num) ==
    IF num >= 0 THEN SubSeq(cards, 1, Min({num, Len(cards)}))
    ELSE SubSeq(cards, 1, Max({Len(cards) + num, 0}))

slice_from(cards, num) ==
    IF num >= 0 THEN SubSeq(cards, Min({num, Len(cards)}) + 1, Len(cards))
    ELSE SubSeq(cards, Max({Len(cards) + num, 0}) + 1, Len(cards))

\* Deck.reset: the 52 cards, suit by suit, then shuffled
reset(k) == shuffle(FullDeck, k)

\* Mutant of deal: the cards dealt_cards stay in the deck.
deal_with_replacement(cards, num) ==
    IF num > Len(cards) THEN [raised |-> TRUE, cards |-> cards, result |-> <<>>]
    ELSE [raised |-> FALSE, cards |-> cards, result |-> slice_to(cards, num)]

\* Mutant of deal: an over-deal hands out the cards that are left.
deal_short(cards, num) ==
    [raised |-> FALSE, cards |-> slice_from(cards, num), result |-> slice_to(cards, num)]

\* Deck.deal: the deck after the call and the cards returned, or ValueError raised
deal(cards, num) ==
    IF num > Len(cards) THEN [raised |-> TRUE, cards |-> cards, result |-> <<>>]
    ELSE [raised |-> FALSE, cards |-> slice_from(cards, num), result |-> slice_to(cards, num)]

\* Deck.deal_one: "return self.deal(1)[0]", the card as a list of one
deal_one(cards) == deal(cards, 1)

\* Deck(): "self.cards = []; self.reset()"
DeckInit ==
    /\ deck_cards \in {reset(k) : k \in ShuffleChoices}
    /\ dealt_cards = <<>>
    /\ deck_out = NoDeckCall
    /\ deck_calls = 0
    /\ EvalIdle /\ ProbIdle /\ PokerIdle /\ GameIdle /\ PlayerIdle /\ AppIdle

CallReset ==
    /\ deck_calls < MaxDeckCalls
    /\ \E k \in ShuffleChoices : deck_cards' = reset(k)
    /\ dealt_cards' = <<>>
    /\ deck_out' = [op |-> "reset", num |-> 0, raised |-> FALSE, result |-> <<>>]
    /\ deck_calls' = deck_calls + 1
    /\ UNCHANGED notDeckVars

CallShuffle ==
    /\ deck_calls < MaxDeckCalls
    /\ \E k \in ShuffleChoices : deck_cards' = shuffle(deck_cards, k)
    /\ deck_out' = [op |-> "shuffle", num |-> 0, raised |-> FALSE, result |-> <<>>]
    /\ deck_calls' = deck_calls + 1
    /\ UNCHANGED <<dealt_cards, notDeckVars>>

CallDeal ==
    /\ deck_calls < MaxDeckCalls
    /\ \E num \in DealSizes :
          /\ deck_cards' = deal(deck_cards, num).cards
          /\ dealt_cards' = dealt_cards \o deal(deck_cards, num).result
          /\ deck_out' = [op |-> "deal", num |-> num,
                          raised |-> deal(deck_cards, num).raised,
                          result |-> deal(deck_cards, num).result]
    /\ deck_calls' = deck_calls + 1
    /\ UNCHANGED notDeckVars

CallDealOne ==
    /\ deck_calls < MaxDeckCalls
    /\ deck_cards' = deal_one(deck_cards).cards
    /\ dealt_cards' = dealt_cards \o deal_one(deck_cards).result
    /\ deck_out' = [op |-> "deal_one", num |-> 1,
                    raised |-> deal_one(deck_cards).raised,
                    result |-> deal_one(deck_cards).result]
    /\ deck_calls' = deck_calls + 1
    /\ UNCHANGED notDeckVars

DeckNext ==
    \/ CallReset
    \/ CallShuffle
    \/ CallDeal
    \/ CallDealOne

SpecDeck == DeckInit /\ [][DeckNext]_vars

\* One card of every rank in every suit
FiftyTwoCards == {Card(rank, suit) : rank \in Range(RANKS), suit \in Range(SUITS)}

\* C14: a reset deck holds 52 pairwise distinct cards, 13 ranks in 4 suits, and after
\* any sequence of deal calls the cards dealt_cards since the reset and the cards left in
\* the deck are disjoint and together are exactly those 52 cards.
C14_DealWithoutReplacement ==
    /\ Cardinality(FiftyTwoCards) = 52
    /\ Len(deck_cards) + Len(dealt_cards) = 52
    /\ Range(deck_cards) \cap Range(dealt_cards) = {}
    /\ Range(deck_cards) \cup Range(dealt_cards) = FiftyTwoCards
    /\ deck_out.op = "reset" => Len(deck_cards) = 52

\* Cards have been dealt_cards by more than one call and some are left
C14_Witness ==
    /\ deck_out.op = "deal"
    /\ ~deck_out.raised
    /\ Len(dealt_cards) > Len(deck_out.result)
    /\ Len(deck_out.result) > 0
    /\ Len(deck_cards) > 0

\* C15: deal(n) with n above the number of cards left raises an error and leaves the
\* cards of the deck and their order as they were; a deal that returns, returns n cards.
C15_OverDealRejected ==
    [][deck_out'.op = "deal" =>
          IF deck_out'.num > Len(deck_cards)
          THEN deck_out'.raised /\ deck_cards' = deck_cards /\ dealt_cards' = dealt_cards
          ELSE deck_out'.num >= 0 => Len(deck_out'.result) = deck_out'.num]_vars

\* An over-deal of five cards from a deck that still holds two
C15_Witness ==
    /\ deck_out.op = "deal"
    /\ deck_out.raised
    /\ deck_out.num <= 52
    /\ Len(deck_cards) > 0

(***************************************************************************)
(* player.py: calls of one Player                                          *)
(***************************************************************************)
\* Calls made to one player.
MaxPlayerCalls == 4

\* The largest amount bet or won in one call.
MaxAmount == 3

\* The chips a player is created with.
PlayerStacks == {0, 2, 5}

PlayerInit ==
    /\ player \in {Player(chips) : chips \in PlayerStacks}
    /\ player_out = NoPlayerCall
    /\ player_calls = 0
    /\ EvalIdle /\ ProbIdle /\ PokerIdle /\ GameIdle /\ DeckIdle /\ AppIdle

PlayerCalled(op, amount, p, result) ==
    /\ player' = p
    /\ player_out' = [op |-> op, amount |-> amount, result |-> result]
    /\ player_calls' = player_calls + 1
    /\ UNCHANGED notPlayerVars

CallBet ==
    /\ player_calls < MaxPlayerCalls
    /\ \E amount \in 0..MaxAmount :
          PlayerCalled("bet", amount, bet(player, amount), actual_bet(player, amount))

CallWinPot ==
    /\ player_calls < MaxPlayerCalls
    /\ \E amount \in 0..MaxAmount :
          PlayerCalled("win_pot", amount, win_pot(player, amount), 0)

CallFold ==
    /\ player_calls < MaxPlayerCalls
    /\ PlayerCalled("fold", 0, fold(player), 0)

CallResetCurrentBet ==
    /\ player_calls < MaxPlayerCalls
    /\ PlayerCalled("reset_current_bet", 0, reset_current_bet(player), 0)

CallClearHand ==
    /\ player_calls < MaxPlayerCalls
    /\ PlayerCalled("clear_hand", 0, clear_hand(player), 0)

PlayerNext ==
    \/ CallBet
    \/ CallWinPot
    \/ CallFold
    \/ CallResetCurrentBet
    \/ CallClearHand

SpecPlayer == PlayerInit /\ [][PlayerNext]_vars

\* bet(amount) commits min(amount, chips) to the round and to the hand
BetCommits(amount, committed) ==
    /\ committed = Min({amount, player.chips})
    /\ player_out'.result = committed
    /\ player'.chips = player.chips - committed
    /\ player'.current_bet = player.current_bet + committed
    /\ player'.total_bet_this_round = player.total_bet_this_round + committed
    /\ amount >= player.chips => player'.chips = 0 /\ player'.is_all_in

\* C16: bet(amount) with amount >= 0 commits min(amount, chips): the stack is never
\* negative after any bets and wins, the committed amount is added to current_bet and
\* to total_bet_this_round, and a bet of the whole stack or more leaves 0 chips and
\* sets is_all_in.
C16_BetIsCapped ==
    /\ [](player.chips >= 0)
    /\ [][player_out'.op = "bet" =>
            BetCommits(player_out'.amount, player.chips - player'.chips)]_vars

\* A bet above the stack: a partial call that puts the player all-in
C16_Witness ==
    /\ player_out.op = "bet"
    /\ player_out.result > 0
    /\ player_out.amount > player_out.result
    /\ player.chips = 0
    /\ player.is_all_in

(***************************************************************************)
(* app.py: one room of the Socket.IO server.  The room's game is the       *)
(* betting engine above; add_player, remove_player and get_current_player  *)
(* are as game_engine.py has them.  An event handler runs until it returns *)
(* or sleeps; check_and_execute_ai_turn sleeps twice.                      *)
(***************************************************************************)
Room == "ROOM01"

Sockets == {"s1", "s2"}

ClientNames == {"ann", "bob"}

BotNames == {"bot"}

\* The actions that clients and the AI policy submit
AppActions == {"fold", "check", "call", "all_in"}

\* Events handled that were not turned away.
MaxAppSteps == 6

\* Calls of check_and_execute_ai_turn asleep at the same time.
MaxAiTurns == 2

\* "def __init__(self, name: str, chips: int = 1000, is_human: bool = True)"
DEFAULT_CHIPS == 1000

\* dict[key] = val and del dict[key]
Put(map, key, val) == [k \in DOMAIN map \cup {key} |-> IF k = key THEN val ELSE map[k]]

Del(map, key) == [k \in DOMAIN map \ {key} |-> map[k]]

\* list.pop(j - 1)
RemoveAt(s, j) == SubSeq(s, 1, j - 1) \o SubSeq(s, j + 1, Len(s))

\* "next((p for p in game.players if p.name == player_name), None)": the seat, 0 for None
SeatOf(ss, name) ==
    IF \E j \in 1..Len(ss) : ss[j].name = name
    THEN Min({j \in 1..Len(ss) : ss[j].name = name})
    ELSE 0

\* "[p for p in game.players if p.is_human]"
human_players(ss) == LET IsHuman(p) == p.is_human IN SelectSeq(ss, IsHuman)

\* The fields of the game but the players
pokerRest == <<pot, current_bet, min_raise, dealer_index, last_raiser_index, acting_index,
               poker_phase, hand_start_chips, hands_played, poker_result, phase_path,
               last_winners>>

\* What the server holds beside the room
besideRoom == <<evalVars, probVars, gameVars, deckVars, playerVars>>

\* game.add_player(player)
poker_add_player(name, is_human) ==
    IF Len(seated) >= MAX_PLAYERS \/ poker_phase # "WAITING"
    THEN UNCHANGED <<seated, pokerVars>>
    ELSE /\ seated' = Append(seated, [name |-> name, is_human |-> is_human])
         /\ poker_players' = Append(poker_players, Player(DEFAULT_CHIPS))
         /\ UNCHANGED pokerRest

\* game.remove_player(player_name): the player is popped, the indices stay
poker_remove_player(name) ==
    IF SeatOf(seated, name) = 0
    THEN UNCHANGED <<seated, pokerVars>>
    ELSE /\ seated' = RemoveAt(seated, SeatOf(seated, name))
         /\ poker_players' = RemoveAt(poker_players, SeatOf(seated, name))
         /\ UNCHANGED pokerRest

\* game.get_current_player().name: "None" at an empty table, "IndexError" when the
\* index is past the players
current_name(ss, index) ==
    IF ss = <<>> THEN "None"
    ELSE IF index \notin 1..Len(ss) THEN "IndexError"
    ELSE ss[index].name

\* game.player_action(player_name, action, amount) for the player to act
player_action(action) ==
    CASE action = "fold" -> fold_action
      [] action = "check" -> check_action
      [] action = "call" -> call_action
      [] OTHER -> all_in_action

\* check_and_execute_ai_turn up to "socketio.sleep(1.2)": the calls asleep after it
ai_turn_begins(turns, phase, ss, index) ==
    IF phase \in {"WAITING", "SHOWDOWN", "HAND_COMPLETE"} THEN turns
    ELSE IF current_name(ss, index) \in {"None", "IndexError"} THEN turns
    ELSE IF ~ss[index].is_human
    THEN Append(turns, [pc |-> "sleep_1_2", name |-> ss[index].name])
    ELSE turns

\* The event handled: the socket that sent it, the player it named, whether it was
\* carried out
AppEvent(handler, sid, name, applied, counted) ==
    /\ app_out' = [handler |-> handler, sid |-> sid, name |-> name, applied |-> applied]
    /\ app_steps' = IF counted THEN app_steps + 1 ELSE app_steps
    /\ UNCHANGED besideRoom

\* "emit('error', ...); return" before anything is assigned
TurnedAway(handler, sid, name) ==
    /\ UNCHANGED <<games, seated, socket_to_player, player_to_socket, room_hosts, ai_turns,
                   pokerVars>>
    /\ AppEvent(handler, sid, name, FALSE, FALSE)

\* handle_join_game, "Update socket mapping for reconnecting player"
reconnect(sid, player_name) ==
    IF player_name \in DOMAIN player_to_socket
    THEN /\ socket_to_player' =
                Put(Del(socket_to_player, player_to_socket[player_name]), sid, player_name)
         /\ player_to_socket' = Put(player_to_socket, player_name, sid)
         /\ games' = {Room}
         /\ UNCHANGED <<seated, room_hosts, ai_turns, pokerVars>>
         /\ AppEvent("join_game", sid, player_name, TRUE, TRUE)
    ELSE TurnedAway("join_game", sid, player_name)

\* handle_join_game of a human player; the first one creates the room
handle_join_game(sid, player_name) ==
    IF poker_phase # "WAITING" THEN reconnect(sid, player_name)
    ELSE IF SeatOf(seated, player_name) # 0 THEN reconnect(sid, player_name)
    ELSE /\ games' = {Room}
         /\ socket_to_player' = Put(socket_to_player, sid, player_name)
         /\ player_to_socket' = Put(player_to_socket, player_name, sid)
         /\ room_hosts' = IF room_hosts = "None" THEN player_name ELSE room_hosts
         /\ poker_add_player(player_name, TRUE)
         /\ UNCHANGED ai_turns
         /\ AppEvent("join_game", sid, player_name, TRUE, TRUE)

\* A room is created under a code that was not in use
HandleJoinGame ==
    /\ app_steps < MaxAppSteps
    /\ games # {} \/ (socket_to_player = EmptyMap /\ player_to_socket = EmptyMap)
    /\ \E sid \in Sockets, player_name \in ClientNames : handle_join_game(sid, player_name)

handle_disconnect(socket_id) ==
    IF socket_id \notin DOMAIN socket_to_player
    THEN TurnedAway("disconnect", socket_id, "None")
    ELSE LET player_name == socket_to_player[socket_id]
             left == IF SeatOf(seated, player_name) = 0 THEN seated
                     ELSE RemoveAt(seated, SeatOf(seated, player_name))
         IN IF games # {} /\ poker_phase = "WAITING"
            THEN /\ socket_to_player' = Del(socket_to_player, socket_id)
                 /\ player_to_socket' = Del(player_to_socket, player_name)
                 /\ IF room_hosts = player_name /\ human_players(left) = <<>>
                    THEN /\ games' = {}
                         /\ room_hosts' = "None"
                         /\ seated' = <<>>
                         /\ poker_players' = <<>>
                         /\ UNCHANGED pokerRest
                    ELSE /\ room_hosts' = IF room_hosts = player_name
                                          THEN human_players(left)[1].name
                                          ELSE room_hosts
                         /\ poker_remove_player(player_name)
                         /\ UNCHANGED games
                 /\ UNCHANGED ai_turns
                 /\ AppEvent("disconnect", socket_id, player_name, TRUE, TRUE)
            ELSE TurnedAway("disconnect", socket_id, player_name)

HandleDisconnect ==
    /\ app_steps < MaxAppSteps
    /\ \E socket_id \in Sockets : handle_disconnect(socket_id)

\* handle_add_ai in a room that exists: one bot a table
HandleAddAi ==
    /\ app_steps < MaxAppSteps
    /\ games # {}
    /\ \E sid \in Sockets, ai_name \in BotNames :
          /\ SeatOf(seated, ai_name) = 0
          /\ poker_add_player(ai_name, FALSE)
          /\ UNCHANGED <<games, socket_to_player, player_to_socket, room_hosts, ai_turns>>
          /\ AppEvent("add_ai_player", sid, ai_name, seated' # seated, seated' # seated)

handle_start_game(sid, player_name) ==
    IF room_hosts # "None" /\ player_name # room_hosts
    THEN TurnedAway("start_game", sid, player_name)
    ELSE IF Len(seated) < 2 THEN TurnedAway("start_game", sid, player_name)
    ELSE /\ start_new_hand_of(poker_players)
         /\ ai_turns' = IF poker_result' = "ok"
                        THEN ai_turn_begins(ai_turns, poker_phase', seated, acting_index')
                        ELSE ai_turns
         /\ UNCHANGED <<games, seated, socket_to_player, player_to_socket, room_hosts>>
         /\ AppEvent("start_game", sid, player_name, poker_result' = "ok", TRUE)

\* start_game is sent between hands
HandleStartGame ==
    /\ app_steps < MaxAppSteps
    /\ games # {}
    /\ poker_phase \in {"WAITING", "HAND_COMPLETE"}
    /\ hands_played < MaxHands
    /\ Len(ai_turns) < MaxAiTurns
    /\ \E sid \in Sockets, player_name \in ClientNames : handle_start_game(sid, player_name)

handle_player_action(sid, player_name, action) ==
    IF current_name(seated, acting_index) # player_name
    THEN TurnedAway("player_action", sid, player_name)
    ELSE /\ player_action(action)
         /\ ai_turns' = IF poker_result' = "ok"
                        THEN ai_turn_begins(ai_turns, poker_phase', seated, acting_index')
                        ELSE ai_turns
         /\ UNCHANGED <<games, seated, socket_to_player, player_to_socket, room_hosts>>
         /\ AppEvent("player_action", sid, player_name, poker_result' = "ok", TRUE)

\* player_action is sent while a hand is bet, under the name of a player at the table
HandlePlayerAction ==
    /\ app_steps < MaxAppSteps
    /\ games # {}
    /\ poker_phase \in BettingPhases
    /\ Len(ai_turns) < MaxAiTurns
    /\ \E sid \in Sockets, j \in 1..Len(seated), action \in AppActions :
          handle_player_action(sid, seated[j].name, action)

handle_surrender(sid, player_name) ==
    LET left == RemoveAt(seated, SeatOf(seated, player_name))
    IN /\ poker_remove_player(player_name)
       /\ socket_to_player' = IF player_name \in DOMAIN player_to_socket
                              THEN Del(socket_to_player, player_to_socket[player_name])
                              ELSE socket_to_player
       /\ player_to_socket' = Del(player_to_socket, player_name)
       /\ room_hosts' = IF room_hosts = player_name /\ human_players(left) # <<>>
                        THEN human_players(left)[1].name
                        ELSE room_hosts
       /\ ai_turns' = IF Len(left) < 2 THEN ai_turns
                      ELSE ai_turn_begins(ai_turns, poker_phase, left, acting_index)
       /\ UNCHANGED games
       /\ AppEvent("surrender", sid, player_name, TRUE, TRUE)

\* surrender is sent under the name of a player at the table
HandleSurrender ==
    /\ app_steps < MaxAppSteps
    /\ games # {}
    /\ Len(ai_turns) < MaxAiTurns
    /\ \E sid \in Sockets, j \in 1..Len(seated) : handle_surrender(sid, seated[j].name)

\* handle_new_hand: the broke players leave, the next hand starts (the statistics are
\* left out)
handle_new_hand(sid) ==
    LET Funded(j) == poker_players[j].chips > 0
        keep == {j \in 1..Len(seated) : Funded(j)}
        nth(r) == CHOOSE j \in keep : Cardinality({i \in keep : i < j}) = r - 1
        kept_players == [r \in 1..Cardinality(keep) |-> poker_players[nth(r)]]
        kept_seated == [r \in 1..Cardinality(keep) |-> seated[nth(r)]]
    IN /\ seated' = kept_seated
       /\ IF Cardinality(keep) < 2
          THEN /\ poker_players' = kept_players
               /\ UNCHANGED pokerRest
               /\ UNCHANGED ai_turns
          ELSE /\ start_new_hand_of(kept_players)
               /\ ai_turns' = ai_turn_begins(ai_turns, poker_phase', kept_seated,
                                             acting_index')
       /\ UNCHANGED <<games, socket_to_player, player_to_socket, room_hosts>>
       /\ AppEvent("new_hand", sid, "None", Cardinality(keep) >= 2, TRUE)

\* new_hand is sent when a hand is complete
HandleNewHand ==
    /\ app_steps < MaxAppSteps
    /\ games # {}
    /\ poker_phase = "HAND_COMPLETE"
    /\ hands_played < MaxHands
    /\ Len(ai_turns) < MaxAiTurns
    /\ \E sid \in Sockets : handle_new_hand(sid)

\* check_and_execute_ai_turn wakes from "socketio.sleep(1.2)", emits ai_thinking and
\* sleeps again
AiThinking ==
    /\ ai_turns # <<>>
    /\ \E k \in 1..Len(ai_turns) :
          /\ ai_turns[k].pc = "sleep_1_2"
          /\ ai_turns' = [ai_turns EXCEPT ![k].pc = "sleep_0_8"]
          /\ UNCHANGED <<games, seated, socket_to_player, player_to_socket, room_hosts,
                         pokerVars>>
          /\ AppEvent("ai_thinking", "None", ai_turns[k].name, FALSE, FALSE)

\* check_and_execute_ai_turn wakes from "socketio.sleep(0.8)": the policy decides on
\* the state as it is now, the action is submitted under the name read before the
\* sleeps and its result is not looked at; then the next AI turn is looked for
AiAction ==
    /\ ai_turns # <<>>
    /\ \E k \in 1..Len(ai_turns), action \in AppActions :
          /\ ai_turns[k].pc = "sleep_0_8"
          /\ IF /\ poker_phase \in BettingPhases
                /\ current_name(seated, acting_index) = ai_turns[k].name
             THEN player_action(action)
             ELSE Rejected("NotPlayersTurn")
          /\ ai_turns' = IF poker_phase' \notin {"SHOWDOWN", "HAND_COMPLETE"}
                         THEN ai_turn_begins(RemoveAt(ai_turns, k), poker_phase', seated,
                                             acting_index')
                         ELSE RemoveAt(ai_turns, k)
          /\ UNCHANGED <<games, seated, socket_to_player, player_to_socket, room_hosts>>
          /\ AppEvent("ai_action", "None", ai_turns[k].name, poker_result' = "ok", FALSE)

AppNext ==
    \/ HandleJoinGame
    \/ HandleDisconnect
    \/ HandleAddAi
    \/ HandleStartGame
    \/ HandlePlayerAction
    \/ HandleSurrender
    \/ HandleNewHand
    \/ AiThinking
    \/ AiAction

\* The server started: no room, no session
AppInit ==
    /\ games = {} /\ seated = <<>>
    /\ socket_to_player = EmptyMap /\ player_to_socket = EmptyMap
    /\ room_hosts = "None"
    /\ ai_turns = <<>>
    /\ app_out = NoAppEvent /\ app_steps = 0
    /\ PokerIdle /\ EvalIdle /\ ProbIdle /\ GameIdle /\ DeckIdle /\ PlayerIdle

SpecApp == AppInit /\ [][AppNext]_vars

\* C25: a player_action event is applied to the game only when the socket that sent
\* it is the socket mapped to the named player in that room.
C25_ActionFromMappedSocket ==
    [][(app_out'.handler = "player_action" /\ app_out'.applied) =>
          /\ app_out'.name \in DOMAIN player_to_socket
          /\ player_to_socket[app_out'.name] = app_out'.sid]_vars

\* The fields of the room's game
gameFields == <<seated, poker_players, pot, current_bet, min_raise, dealer_index,
                last_raiser_index, acting_index, poker_phase, hands_played, last_winners>>

\* C27: while a call of check_and_execute_ai_turn is between its read of the current
\* player and its submission, nothing else changes the game of the room, and the
\* action it submits is applied for the player it read.
C27_TableSerialized ==
    [][/\ (ai_turns # <<>> /\ app_out'.handler # "ai_action") => UNCHANGED gameFields
       /\ (Len(ai_turns) > 1 /\ app_out'.handler = "ai_action") => UNCHANGED gameFields
       /\ app_out'.handler = "ai_action" =>
              /\ current_name(seated, acting_index) = app_out'.name
              /\ poker_phase \in BettingPhases]_vars

(***************************************************************************)
(* app.py: the lobby of a room, where add_ai_player may come first         *)
(***************************************************************************)
LobbyBots == {"bot", "bot2"}

\* handle_add_ai: get_or_create_game makes the room when it is not there; the bot is
\* seated, and neither a host nor a session is recorded
LobbyAddAi ==
    /\ app_steps < MaxAppSteps
    /\ \E sid \in Sockets, ai_name \in LobbyBots :
          /\ SeatOf(seated, ai_name) = 0
          /\ games' = {Room}
          /\ poker_add_player(ai_name, FALSE)
          /\ UNCHANGED <<socket_to_player, player_to_socket, room_hosts, ai_turns>>
          /\ AppEvent("add_ai_player", sid, ai_name, seated' # seated, TRUE)

LobbyNext ==
    \/ HandleJoinGame
    \/ HandleDisconnect
    \/ LobbyAddAi
    \/ HandleStartGame

SpecLobby == AppInit /\ [][LobbyNext]_vars

\* C36: in a room with at least one seated player, a start_game event whose
\* player_name is not the room's host is rejected and leaves the game unstarted.
C36_OnlyHostStarts ==
    [][( /\ app_out'.handler = "start_game"
         /\ seated # <<>>
         /\ app_out'.name # room_hosts )
          => /\ ~app_out'.applied
             /\ UNCHANGED gameFields]_vars

\* C40: after any sequence of join, reconnect, disconnect and surrender events the
\* two session maps of the room are mutually inverse, and every mapped player name
\* is that of a player seated in the room's game.
C40_SessionMapsInverse ==
    /\ \A s \in DOMAIN socket_to_player :
          /\ socket_to_player[s] \in DOMAIN player_to_socket
          /\ player_to_socket[socket_to_player[s]] = s
    /\ \A p \in DOMAIN player_to_socket :
          /\ player_to_socket[p] \in DOMAIN socket_to_player
          /\ socket_to_player[player_to_socket[p]] = p
          /\ SeatOf(seated, p) # 0

====
